---- MODULE Spec2Model ----
(***************************************************************************)
(* Conversation-state engine of the WhatsApp clone:                        *)
(*   - story playback (components/Stories.tsx, Stories),                   *)
(*   - the message pipeline (components/ChatArea.tsx, ChatArea),           *)
(*   - the conversation directory (components/ChatSidebar.tsx and App),    *)
(*   - message actions, group creation, the story library and presence.    *)
(* Every await of the source is a suspension point: a handler is split at  *)
(* its awaits into one action per continuation.  A store call takes effect *)
(* (or fails) in the action that resumes its caller.                       *)
(***************************************************************************)
EXTENDS Integers, Sequences, FiniteSets, TLC

\* ------------------------------------------------------------------ bounds
MaxStories == 2        \* stories in the flattened list [...myStories, ...stories]
MaxViews   == 2        \* handleViewStory calls and intervals alive at once
MaxDup     == 2        \* storyViews records kept per (story, viewer)
MaxClock    == 2       \* readings of Date.now()
MaxMessages == 3       \* messages in the local sequence
MaxInFlight == 1       \* sendMessage calls suspended at once
MaxActions  == 2       \* handleMessageAction and loadMessages calls suspended at once
MaxOps      == 4       \* user operations on the conversation pane in one run
MaxLibrary  == 2       \* stories in the store
MaxStoryCalls == 2     \* handleAddStory and loadStories calls suspended at once
MaxRecorders == 2     \* MediaRecorder objects alive at once
MaxSeconds == 1       \* firings of the one-second interval counted in recordingTime
MaxChunks == 2        \* recordings whose data audioChunks can come to hold
MaxPresence == 2       \* presence writes in flight at once

\* --------------------------------------------------------------- constants
ProgressStep == 2      \* prev + 2
ProgressFull == 100    \* prev >= 100
DefaultTicks == 50     \* "100 / 2 = 50 intervals"

Users       == {"u1", "u2", "u3"}
currentUser == "u1"    \* the Stories component's currentUser prop
NoStory     == 0       \* selectedStory = null
NoTimer     == 0       \* storyTimer = null

VARIABLES
  \* Stories component state (useState)
  myStories, stories, selectedStory, currentStoryIndex, showStoryViewer,
  storyProgress, storyTimer,
  \* the runtime: live intervals, handleViewStory calls suspended at an await
  timers, viewCalls,
  \* the store: storyViews collection, as the number of records of currentUser per story
  dbStoryViews,
  \* history of the playback session (not program state)
  closedByUser, ticksSinceOpen, navigated, openIndex,
  \* ChatArea component state (useState) and its selectedChatId prop
  messages, newMessage, replyToMessage, selectedChatId,
  \* Date.now(), and the sendMessage calls suspended at an await
  now, sends,
  \* the store: messages collection, and lastMessageAt of each chat
  dbMessages, dbChats,
  \* the sendMessage call that finished in the last step (not program state)
  lastSend,
  \* the store: chatParticipants collection
  dbChatParticipants,
  \* per client: its handleStartChat/handleNewChat call and App's selectedChatId
  startCall, appSelectedChatId,
  \* history of the directory calls (not program state)
  lastStart, firstResolved, overlapped, storeFailed,
  \* the handleMessageAction and loadMessages calls suspended at an await
  msgCalls,
  \* the message action that finished in the last step, and the number of user
  \* operations so far (not program state)
  lastAction, ops,
  \* ChatSidebar's group dialog (useState) and its handleCreateGroup call
  groupName, selectedUsers, showNewGroupDialog, groupCall,
  \* the store: groups and groupMembers collections
  dbGroups, dbGroupMembers,
  \* the handleCreateGroup call made or finished in the last step (not program state)
  lastGroup,
  \* the handleViewStory store check that finished in the last step (not program state)
  lastView,
  \* the store: stories collection; the handleAddStory and loadStories calls
  \* suspended at an await; the loadStories call that finished in the last step
  dbStories, storyCalls, lastLoad,
  \* App's session (initializeUser, currentUser), the users.update calls in
  \* flight, and the store's user record of currentUser
  session, presenceWrites, dbUser,
  \* ChatArea's recording state (useState) and recordingIntervalRef.current
  isRecording, recordingTime, mediaRecorder, audioChunks, recordingIntervalRef,
  \* the runtime: live one-second intervals, MediaRecorder objects, startRecording
  \* calls awaiting getUserMedia, onstop handlers suspended at an await
  recIntervals, recorders, micCalls, voiceCalls,
  \* whether the Mic button is held down (not program state)
  held

storyVars == <<myStories, stories, selectedStory, currentStoryIndex,
               showStoryViewer, storyProgress, storyTimer, timers, viewCalls,
               dbStoryViews, closedByUser, ticksSinceOpen, navigated, openIndex>>

chatVars == <<messages, newMessage, replyToMessage, selectedChatId, now, sends,
              dbMessages, dbChats, lastSend>>

chatLocal == <<messages, newMessage, replyToMessage, selectedChatId, sends, dbMessages,
               lastSend>>

dirVars == <<dbChatParticipants, startCall, appSelectedChatId, lastStart, firstResolved,
             overlapped, storeFailed>>

actVars == <<msgCalls, lastAction, ops>>

grpVars == <<groupName, selectedUsers, showNewGroupDialog, groupCall, dbGroups,
             dbGroupMembers, lastGroup>>

libVars == <<dbStories, storyCalls, lastLoad>>

presVars == <<session, presenceWrites, dbUser>>

recVars == <<isRecording, recordingTime, mediaRecorder, audioChunks, recordingIntervalRef,
             recIntervals, recorders, micCalls, voiceCalls, held>>

viewerVars == <<selectedStory, currentStoryIndex, showStoryViewer, storyProgress,
                storyTimer, timers, viewCalls, closedByUser, ticksSinceOpen, navigated,
                openIndex>>

vars == <<storyVars, chatVars, dirVars, actVars, grpVars, lastView, libVars, presVars, recVars>>

\* const allStories = [...myStories, ...stories]; JS index i is allStories[i+1]
allStories == myStories \o stories

StoryAt(i) == allStories[i + 1]

KeepInterval(ts, t) == ts

\* clearInterval(t): the interval with that id, if still live, is removed
ClearInterval(ts, t) == {x \in ts : x.id # t}

\* setInterval returns an id no live interval has; an id nothing refers to any more
\* (no live interval, no suspended call, not the stored storyTimer) is given out again
FreshIds(ts) ==
  (1..MaxViews) \ ({x.id : x \in ts} \cup {c.id : c \in viewCalls} \cup {storyTimer})

NewId(ts) == CHOOSE i \in FreshIds(ts) : \A j \in FreshIds(ts) : i <= j

\* ----------------------------------------------------------- handleViewStory
NoView == [outcome |-> "none"]

\* history kept in a suspended call: whether another call for the same story has
\* run while it was suspended (clean), and the records found when it began
Overlapping(calls, story) ==
  {IF c.story = story THEN [c EXCEPT !.clean = FALSE] ELSE c : c \in calls}

AlwaysCreate(found) == TRUE

\* if (existingView.length === 0)   (line 167)
ShouldCreate(found) == found = 0

\* lines 149-152, then either the store check is issued (155-165) or, for an
\* own story, the function runs on to setInterval/setStoryTimer (181-198).
\* ts is the set of live intervals left by the caller.
ViewStoryBegin(story, index, ts) ==
  /\ FreshIds(ts) # {}
  /\ selectedStory' = story.id
  /\ currentStoryIndex' = index
  /\ showStoryViewer' = TRUE
  /\ storyProgress' = 0
  /\ IF story.userId # currentUser
       THEN /\ viewCalls' = Overlapping(viewCalls, story.id) \cup
                 {[id |-> NewId(ts), story |-> story.id, index |-> index, pc |-> "list",
                   clean |-> \A c \in viewCalls : c.story # story.id,
                   startCount |-> dbStoryViews[story.id]]}
            /\ timers' = ts
            /\ UNCHANGED storyTimer
       ELSE /\ timers' = ts \cup {[id |-> NewId(ts), index |-> index]}
            /\ storyTimer' = NewId(ts)
            /\ UNCHANGED viewCalls
  /\ UNCHANGED <<myStories, stories, dbStoryViews>>

\* the interval is created and stored: lines 181-198
StartTimer(c) ==
  /\ timers' = timers \cup {[id |-> c.id, index |-> c.index]}
  /\ storyTimer' = c.id

\* storyViews.list resolves (158-167) or rejects (175-177)
ViewListDone(c, ok) ==
  /\ c \in viewCalls /\ c.pc = "list"
  /\ IF ok /\ ShouldCreate(dbStoryViews[c.story])
       THEN /\ viewCalls' = (viewCalls \ {c}) \cup {[c EXCEPT !.pc = "create"]}
            /\ UNCHANGED <<timers, storyTimer>>
       ELSE /\ viewCalls' = viewCalls \ {c}
            /\ StartTimer(c)
  /\ UNCHANGED <<myStories, stories, selectedStory, currentStoryIndex, showStoryViewer,
                 storyProgress, dbStoryViews, closedByUser, ticksSinceOpen,
                 navigated, openIndex>>

\* storyViews.create resolves (168-173) or rejects (175-177)
ViewCreateDone(c, ok) ==
  /\ c \in viewCalls /\ c.pc = "create"
  /\ ok => dbStoryViews[c.story] < MaxDup
  /\ dbStoryViews' = IF ok
       THEN [dbStoryViews EXCEPT ![c.story] = @ + 1]
       ELSE dbStoryViews
  /\ viewCalls' = viewCalls \ {c}
  /\ StartTimer(c)
  /\ UNCHANGED <<myStories, stories, selectedStory, currentStoryIndex, showStoryViewer,
                 storyProgress, closedByUser, ticksSinceOpen, navigated, openIndex>>

\* one firing of the interval callback: lines 181-196
Tick(t) ==
  /\ t \in timers
  /\ IF storyProgress >= ProgressFull
       THEN IF t.index < Len(allStories) - 1
              THEN ViewStoryBegin(StoryAt(t.index + 1), t.index + 1, ClearInterval(timers, t.id))
              ELSE /\ timers' = ClearInterval(timers, t.id)
                   /\ showStoryViewer' = FALSE
                   /\ storyProgress' = 0
                   /\ UNCHANGED <<myStories, stories, selectedStory, currentStoryIndex,
                                  storyTimer, viewCalls, dbStoryViews>>
       ELSE /\ storyProgress' = storyProgress + ProgressStep
            /\ UNCHANGED <<myStories, stories, selectedStory, currentStoryIndex,
                           showStoryViewer, storyTimer, timers, viewCalls,
                           dbStoryViews>>
  /\ ticksSinceOpen' = IF ~navigated /\ ~closedByUser /\ ticksSinceOpen <= DefaultTicks
                         THEN ticksSinceOpen + 1
                         ELSE ticksSinceOpen
  /\ UNCHANGED <<closedByUser, navigated, openIndex>>

\* the entry points of the story bar (lines 256 and 288); the viewer is a modal
\* dialog, so the bar is reachable only while the viewer is not shown
OpenStory(index) ==
  /\ ~showStoryViewer
  /\ index \in 0..(Len(allStories) - 1)
  /\ \/ index = 0 /\ Len(myStories) > 0
     \/ /\ index >= Len(myStories)
        /\ \A j \in Len(myStories)..(index - 1) : StoryAt(j).userId # StoryAt(index).userId
  /\ ViewStoryBegin(StoryAt(index), index, timers)
  /\ closedByUser' = FALSE
  /\ ticksSinceOpen' = 0
  /\ navigated' = FALSE
  /\ openIndex' = index

\* lines 201-209
CloseViewer ==
  /\ IF storyTimer # NoTimer
       THEN timers' = ClearInterval(timers, storyTimer) /\ storyTimer' = NoTimer
       ELSE UNCHANGED <<timers, storyTimer>>
  /\ showStoryViewer' = FALSE
  /\ selectedStory' = NoStory
  /\ storyProgress' = 0
  /\ closedByUser' = TRUE
  /\ UNCHANGED <<myStories, stories, currentStoryIndex, viewCalls, dbStoryViews>>

\* the close button (401) and the dialog's onOpenChange (366), while the viewer is shown
closeStoryViewer ==
  /\ showStoryViewer
  /\ CloseViewer
  /\ ticksSinceOpen' = 0
  /\ UNCHANGED <<navigated, openIndex>>

\* lines 211-219; the navigation zones exist while the viewer shows a story (368, 436-439)
nextStory ==
  /\ showStoryViewer /\ selectedStory # NoStory
  /\ IF currentStoryIndex < Len(allStories) - 1
       THEN /\ ViewStoryBegin(StoryAt(currentStoryIndex + 1), currentStoryIndex + 1,
                              IF storyTimer # NoTimer THEN ClearInterval(timers, storyTimer)
                              ELSE timers)
            /\ UNCHANGED closedByUser
       ELSE CloseViewer
  /\ navigated' = TRUE
  /\ ticksSinceOpen' = 0
  /\ UNCHANGED openIndex

\* lines 221-227
prevStory ==
  /\ showStoryViewer /\ selectedStory # NoStory
  /\ IF currentStoryIndex > 0
       THEN ViewStoryBegin(StoryAt(currentStoryIndex - 1), currentStoryIndex - 1,
                           IF storyTimer # NoTimer THEN ClearInterval(timers, storyTimer)
                           ELSE timers)
       ELSE UNCHANGED <<myStories, stories, selectedStory, currentStoryIndex,
                        showStoryViewer, storyProgress, storyTimer, timers, viewCalls,
                        dbStoryViews>>
  /\ navigated' = TRUE
  /\ ticksSinceOpen' = 0
  /\ UNCHANGED <<closedByUser, openIndex>>

\* the lists loadStories left in local state: own stories first, then the others'
StoryLists ==
  {<<m, o>> \in (UNION {[1..k -> {currentUser}] : k \in 0..MaxStories})
                \X (UNION {[1..k -> Users \ {currentUser}] : k \in 0..MaxStories}) :
      Len(m) + Len(o) \in 1..MaxStories}

InitStories ==
  /\ \E l \in StoryLists :
       /\ myStories = [i \in 1..Len(l[1]) |-> [id |-> i, userId |-> l[1][i]]]
       /\ stories = [i \in 1..Len(l[2]) |-> [id |-> Len(l[1]) + i, userId |-> l[2][i]]]
  /\ selectedStory = NoStory
  /\ currentStoryIndex = 0
  /\ showStoryViewer = FALSE
  /\ storyProgress = 0
  /\ storyTimer = NoTimer
  /\ timers = {}
  /\ viewCalls = {}
  /\ dbStoryViews = [i \in 1..MaxStories |-> 0]
  /\ closedByUser = FALSE
  /\ ticksSinceOpen = 0
  /\ navigated = FALSE
  /\ openIndex = 0

\* ======================================================= the message pipeline
\* `chat_${Date.now()}` (Stories.tsx:566) and `chat_group_${Date.now()}`
\* (ChatSidebar.tsx:306-307)
ChatId(t)      == <<"chat", t>>
GroupChatId(t) == <<"chat_group", t>>

Chat1     == ChatId(0)        \* two conversations made before the run
Chat2     == GroupChatId(0)
Chats     == {Chat1, Chat2}
NoChat    == << >>     \* selectedChatId = null
NoMessage == 0         \* replyToMessageId undefined
NoReply   == << >>     \* replyToMessage = null
NoSend    == [outcome |-> "none"]

\* the texts typed into the input: empty, blank, a letter
Drafts == {<< >>, <<" ">>, <<"a">>}

\* String.prototype.trim
RECURSIVE TrimLeft(_)
TrimLeft(str) == IF str # << >> /\ Head(str) = " " THEN TrimLeft(Tail(str)) ELSE str

RECURSIVE TrimRight(_)
TrimRight(str) ==
  IF str # << >> /\ str[Len(str)] = " " THEN TrimRight(SubSeq(str, 1, Len(str) - 1)) ELSE str

Trim(str) == TrimRight(TrimLeft(str))

\* prev.filter(m => m.id !== messageId)
RECURSIVE FilterOutId(_, _)
FilterOutId(prev, messageId) ==
  IF prev = << >> THEN << >>
  ELSE IF Head(prev).id # messageId
         THEN <<Head(prev)>> \o FilterOutId(Tail(prev), messageId)
         ELSE FilterOutId(Tail(prev), messageId)

RemoveAt(seq, i) == SubSeq(seq, 1, i - 1) \o SubSeq(seq, i + 1, Len(seq))

OptimisticPrepend(prev, m) == <<m>> \o prev

\* setMessages(prev => [...prev, optimisticMessage])
OptimisticAppend(prev, m) == Append(prev, m)

\* the catch block of sendMessage: setMessages(prev => prev.filter(...))
Rollback(prev, messageId) == FilterOutId(prev, messageId)

\* what the quoted preview shows of a message object (lines 506-513, 634-641)
ReplyTo(m) == <<[id |-> m.id, content |-> m.content, senderId |-> m.senderId]>>

\* replyToMessage?.id
IdOf(reply) == IF reply = NoReply THEN NoMessage ELSE reply[1].id

\* the fields messages.create is given (220-231) and messages.list returns
Row(m) ==
  [id |-> m.id, chatId |-> m.chatId, senderId |-> m.senderId, content |-> m.content,
   replyToMessageId |-> m.replyToMessageId, isStarred |-> m.isStarred,
   createdAt |-> m.createdAt]

ReplyKept(reply) == reply

\* what sendMessage leaves in replyToMessage: setReplyToMessage(null)
ReplyAfterSend(reply) == NoReply

\* a step of another call that changes the local sequence or the reply context
\* marks the sends running across it; what such a send saw when it was called is
\* then of no more use
Interfered(ss) ==
  [j \in 1..Len(ss) |->
     [ss[j] EXCEPT !.interfered = TRUE, !.before = << >>, !.replyBefore = NoReply]]

\* the input's onChange (line 713)
TypeMessage(d) ==
  /\ newMessage # d
  /\ newMessage' = d
  /\ lastSend' = NoSend
  /\ UNCHANGED <<messages, replyToMessage, selectedChatId, now, sends, dbMessages, dbChats>>

\* handleMessageAction('reply', message): lines 387-389
ReplyAction(m) ==
  /\ replyToMessage' = ReplyTo(m)
  /\ sends' = Interfered(sends)
  /\ lastSend' = NoSend
  /\ UNCHANGED <<messages, newMessage, selectedChatId, now, dbMessages, dbChats>>

\* the reply bar's cancel button (line 646)
CancelReply ==
  /\ replyToMessage # NoReply
  /\ replyToMessage' = NoReply
  /\ sends' = Interfered(sends)
  /\ lastSend' = NoSend
  /\ UNCHANGED <<messages, newMessage, selectedChatId, now, dbMessages, dbChats>>

\* Date.now() moves on
ClockTick ==
  /\ now < MaxClock
  /\ now' = now + 1
  /\ lastSend' = NoSend
  /\ UNCHANGED <<messages, newMessage, replyToMessage, selectedChatId, sends, dbMessages,
                 dbChats>>

\* the sendMessage call made in the last step: what it was called with
Called ==
  [outcome |-> "called", draft |-> newMessage, before |-> messages,
   replyBefore |-> replyToMessage, inFlight |-> Len(sends)]

SendGuardNoTrim(draft, chat) == draft # << >> /\ chat # NoChat

\* if (!newMessage.trim() || !selectedChatId || !currentUser) return   (line 193)
SendGuard(draft, chat) == Trim(draft) # << >> /\ chat # NoChat

\* sendMessage past its guard, up to its first await: lines 195-220
SendBegin ==
  /\ Len(messages) < MaxMessages
  /\ Len(sends) < MaxInFlight
  /\ LET optimisticMessage ==
           [id |-> now, chatId |-> selectedChatId, senderId |-> currentUser,
            content |-> newMessage, replyToMessageId |-> IdOf(replyToMessage),
            isStarred |-> FALSE, createdAt |-> now, replyToMessage |-> replyToMessage]
     IN /\ messages' = OptimisticAppend(messages, optimisticMessage)
        /\ sends' = Append(Interfered(sends),
                           [msg |-> optimisticMessage, pc |-> "create", interfered |-> FALSE,
                            before |-> messages, replyBefore |-> replyToMessage,
                            deleted |-> FALSE])
  /\ newMessage' = << >>
  /\ replyToMessage' = ReplyAfterSend(replyToMessage)
  /\ lastSend' = Called
  /\ UNCHANGED <<selectedChatId, now, dbMessages, dbChats>>

\* the early return of line 193
SendRejected ==
  /\ lastSend' = Called
  /\ UNCHANGED <<messages, newMessage, replyToMessage, selectedChatId, now, sends,
                 dbMessages, dbChats>>

\* sendMessage, from the send button (729) or the Enter key (714-717)
sendMessage ==
  IF SendGuard(newMessage, selectedChatId) THEN SendBegin ELSE SendRejected

\* the send that finished in this step: how it ended, what the local state was
\* when it was called and what it is now
Finished(snd, outcome, msgsAfter) ==
  [outcome |-> outcome, interfered |-> snd.interfered, msg |-> snd.msg,
   before |-> snd.before, after |-> msgsAfter, deleted |-> snd.deleted,
   replyBefore |-> snd.replyBefore, replyAfter |-> replyToMessage]

\* the collection is keyed by id (update(id, patch), delete(id)): a create under
\* an id that is taken rejects
IdTaken(id) == \E r \in dbMessages : r.id = id

\* chats.update(selectedChatId, { lastMessageAt: now, updatedAt: now })
UpdateLastMessageAt(chat, t) ==
  {IF r.id = chat THEN [r EXCEPT !.lastMessageAt = t] ELSE r : r \in dbChats}

\* messages.create resolves (220-231) or rejects (239-243)
SendCreateDone(i, ok) ==
  /\ i \in 1..Len(sends) /\ sends[i].pc = "create"
  /\ ok => ~IdTaken(sends[i].msg.id)
  /\ IF ok
       THEN /\ dbMessages' = dbMessages \cup {Row(sends[i].msg)}
            /\ sends' = [sends EXCEPT ![i].pc = "update"]
            /\ lastSend' = NoSend
            /\ UNCHANGED messages
       ELSE /\ messages' = Rollback(messages, sends[i].msg.id)
            /\ sends' = Interfered(RemoveAt(sends, i))
            /\ lastSend' = Finished(sends[i], "createFailed", messages')
            /\ UNCHANGED dbMessages
  /\ UNCHANGED <<newMessage, replyToMessage, selectedChatId, now, dbChats>>

\* chats.update resolves (234-237) or rejects (239-243)
SendUpdateDone(i, ok) ==
  /\ i \in 1..Len(sends) /\ sends[i].pc = "update"
  /\ IF ok
       THEN /\ dbChats' = UpdateLastMessageAt(sends[i].msg.chatId, sends[i].msg.createdAt)
            /\ sends' = RemoveAt(sends, i)
            /\ UNCHANGED messages
            /\ lastSend' = Finished(sends[i], "ok", messages')
       ELSE /\ messages' = Rollback(messages, sends[i].msg.id)
            /\ sends' = Interfered(RemoveAt(sends, i))
            /\ lastSend' = Finished(sends[i], "updateFailed", messages')
            /\ UNCHANGED dbChats
  /\ UNCHANGED <<newMessage, replyToMessage, selectedChatId, now, dbMessages>>

\* the reply lookup of loadMessages (lines 152-168): the preview of the stored
\* message the row refers to, null when the row refers to none or none is found
ReplyLookup(row, store) ==
  LET found == {r \in store : r.id = row.replyToMessageId}
  IN IF row.replyToMessageId = NoMessage \/ found = {} THEN NoReply
     ELSE ReplyTo(CHOOSE r \in found : TRUE)

\* messagesWithSenders (145-178): each listed row with its replyToMessage
WithReplies(rows, store) ==
  [i \in 1..Len(rows) |->
     [id |-> rows[i].id, chatId |-> rows[i].chatId, senderId |-> rows[i].senderId,
      content |-> rows[i].content, replyToMessageId |-> rows[i].replyToMessageId,
      isStarred |-> rows[i].isStarred, createdAt |-> rows[i].createdAt,
      replyToMessage |-> ReplyLookup(rows[i], store)]]

\* the messages found in the conversation: each was sent by the counterpart at the
\* reading of the counterpart's clock, which is its id and its createdAt
PriorIds == {1}

PriorMessages == UNION {[S -> {"u2"}] : S \in SUBSET PriorIds}

PriorRecord(f, k) ==
  [id |-> k, chatId |-> Chat1, senderId |-> f[k], content |-> <<"a">>,
   replyToMessageId |-> NoMessage, isStarred |-> FALSE, createdAt |-> k]

\* orderBy: { createdAt: 'asc' } over the prior messages with ids in S
RECURSIVE Ascending(_, _)
Ascending(f, S) ==
  IF S = {} THEN << >>
  ELSE LET k == CHOOSE x \in S : \A y \in S : x <= y
       IN <<PriorRecord(f, k)>> \o Ascending(f, S \ {k})

PriorChats ==
  {[id |-> Chat1, type |-> "individual", lastMessageAt |-> 0],
   [id |-> Chat2, type |-> "group", lastMessageAt |-> 0]}

ChatIdle ==
  /\ messages = << >> /\ newMessage = << >> /\ replyToMessage = NoReply
  /\ selectedChatId = Chat1 /\ now = 1 /\ sends = << >>
  /\ dbMessages = {} /\ dbChats = PriorChats
  /\ lastSend = NoSend

\* the chat c1 is open and its messages are loaded
InitChat ==
  /\ \E f \in PriorMessages :
       /\ dbMessages = {PriorRecord(f, k) : k \in DOMAIN f}
       /\ messages = WithReplies(Ascending(f, DOMAIN f), {})
  /\ newMessage = << >>
  /\ replyToMessage = NoReply
  /\ selectedChatId = Chat1
  /\ now = 1
  /\ sends = << >>
  /\ dbChats = PriorChats
  /\ lastSend = NoSend

StoriesIdle ==
  /\ myStories = << >> /\ stories = << >> /\ selectedStory = NoStory
  /\ currentStoryIndex = 0 /\ showStoryViewer = FALSE /\ storyProgress = 0
  /\ storyTimer = NoTimer /\ timers = {} /\ viewCalls = {}
  /\ dbStoryViews = [i \in 1..MaxStories |-> 0]
  /\ closedByUser = FALSE /\ ticksSinceOpen = 0 /\ navigated = FALSE /\ openIndex = 0

\* ===================================================== the message actions
NoAction == [kind |-> "none"]

\* the rows of a conversation in the order of orderBy: { createdAt: 'asc' }
RECURSIVE SortByCreatedAt(_)
SortByCreatedAt(rows) ==
  IF rows = {} THEN << >>
  ELSE LET first == CHOOSE r \in rows : \A q \in rows : r.createdAt <= q.createdAt
       IN <<first>> \o SortByCreatedAt(rows \ {first})

\* messages.list({ where: { chatId }, orderBy: { createdAt: 'asc' } })
ListMessages(chat) == SortByCreatedAt({r \in dbMessages : r.chatId = chat})

\* the stored rows under an id, and their starred flags
RowsOf(id) == {r \in dbMessages : r.id = id}

StoredFlags(id) == {r.isStarred : r \in RowsOf(id)}

\* the Delete item is rendered for a message of the list when
\* message.senderId === currentUser?.id (lines 612-613)
DeleteOffered(m) == m.senderId = currentUser

\* isStarred: !message.isStarred, from the message object of the rendered list
StarPatchLocal(m, stored) == ~m.isStarred

\* the loadMessages of the render the handler belongs to: its selectedChatId
LoadCall(chat, origin) ==
  [kind |-> "load", pc |-> "list", chat |-> chat, rows |-> << >>, origin |-> origin]

\* handleChatSelect (Stories.tsx:557-560), then ChatArea's effect runs the new
\* loadMessages (ChatArea.tsx:187-190)
SelectChat(c) ==
  /\ c \in Chats /\ c # selectedChatId
  /\ Cardinality(msgCalls) < MaxActions
  /\ selectedChatId' = c
  /\ msgCalls' = msgCalls \cup {LoadCall(c, NoAction)}
  /\ lastAction' = NoAction /\ lastSend' = NoSend
  /\ UNCHANGED <<messages, newMessage, replyToMessage, now, sends, dbMessages, dbChats>>

\* handleMessageAction('star', message) up to its await: lines 390-393
StarAction(m) ==
  /\ selectedChatId \in Chats
  /\ Cardinality(msgCalls) < MaxActions
  /\ msgCalls' = msgCalls \cup
       {[kind |-> "star", pc |-> "write", chat |-> selectedChatId, msg |-> m,
         stored |-> StoredFlags(m.id)]}
  /\ lastAction' = NoAction /\ lastSend' = NoSend
  /\ UNCHANGED <<messages, newMessage, replyToMessage, selectedChatId, now, sends,
                 dbMessages, dbChats>>

\* the sends whose message the user has asked to delete
DeleteAsked(ss, id) ==
  [j \in 1..Len(ss) |-> IF ss[j].msg.id = id THEN [ss[j] EXCEPT !.deleted = TRUE] ELSE ss[j]]

\* handleMessageAction('delete', message) up to its await: lines 399-400
DeleteAction(m) ==
  /\ selectedChatId \in Chats
  /\ DeleteOffered(m)
  /\ Cardinality(msgCalls) < MaxActions
  /\ msgCalls' = msgCalls \cup
       {[kind |-> "delete", pc |-> "write", chat |-> selectedChatId, msg |-> m]}
  /\ sends' = DeleteAsked(sends, m.id)
  /\ lastAction' = NoAction /\ lastSend' = NoSend
  /\ UNCHANGED <<messages, newMessage, replyToMessage, selectedChatId, now,
                 dbMessages, dbChats>>

\* the counterpart deletes, in its own client, a message it sent: messages.delete
\* of lines 399-400 run by the other participant
PeerDelete(r) ==
  /\ r \in dbMessages /\ r.senderId # currentUser
  /\ dbMessages' = dbMessages \ {r}
  /\ lastAction' = NoAction /\ lastSend' = NoSend
  /\ UNCHANGED <<messages, newMessage, replyToMessage, selectedChatId, now, sends, dbChats,
                 msgCalls>>

\* messages.update resolves, then loadMessages() is called (391-395); when it
\* rejects the handler ends there
StarWriteDone(c, ok) ==
  /\ c \in msgCalls /\ c.kind = "star"
  /\ IF ok
       THEN /\ dbMessages' = {IF r.id = c.msg.id
                                THEN [r EXCEPT !.isStarred = StarPatchLocal(c.msg, r.isStarred)]
                                ELSE r : r \in dbMessages}
            /\ msgCalls' = (msgCalls \ {c}) \cup {LoadCall(c.chat, NoAction)}
            /\ lastAction' = [kind |-> "star", id |-> c.msg.id, by |-> currentUser,
                              sender |-> c.msg.senderId,
                              before |-> c.stored, after |-> {StarPatchLocal(c.msg, FALSE)}]
       ELSE /\ msgCalls' = msgCalls \ {c}
            /\ lastAction' = NoAction
            /\ UNCHANGED dbMessages
  /\ lastSend' = NoSend
  /\ UNCHANGED <<messages, newMessage, replyToMessage, selectedChatId, now, sends, dbChats>>

\* messages.delete resolves, then loadMessages() is called (400-401); when it
\* rejects the handler ends there
DeleteWriteDone(c, ok) ==
  /\ c \in msgCalls /\ c.kind = "delete"
  /\ IF ok
       THEN /\ dbMessages' = dbMessages \ RowsOf(c.msg.id)
            /\ msgCalls' = (msgCalls \ {c}) \cup
                 {LoadCall(c.chat, [kind |-> "delete", id |-> c.msg.id,
                                    removed |-> RowsOf(c.msg.id) # {}])}
            /\ lastAction' = [kind |-> "deleteWrite", id |-> c.msg.id, by |-> currentUser,
                              removed |-> {r.senderId : r \in RowsOf(c.msg.id)}]
       ELSE /\ msgCalls' = msgCalls \ {c}
            /\ lastAction' = NoAction
            /\ UNCHANGED dbMessages
  /\ lastSend' = NoSend
  /\ UNCHANGED <<messages, newMessage, replyToMessage, selectedChatId, now, sends, dbChats>>

\* the end of a loadMessages call: the delete it was called by has finished
Settled(c, ok) ==
  IF c.origin = NoAction THEN NoAction
  ELSE [kind |-> "deleteDone", id |-> c.origin.id, removed |-> c.origin.removed,
        reloaded |-> ok]

\* messages.list of loadMessages resolves (140-143) or rejects (182-184)
LoadListDone(c, ok) ==
  /\ c \in msgCalls /\ c.kind = "load" /\ c.pc = "list"
  /\ IF ok
       THEN /\ msgCalls' = (msgCalls \ {c}) \cup
                 {[c EXCEPT !.pc = "enrich", !.rows = ListMessages(c.chat)]}
            /\ lastAction' = NoAction
       ELSE /\ msgCalls' = msgCalls \ {c}
            /\ lastAction' = Settled(c, FALSE)
  /\ lastSend' = NoSend
  /\ UNCHANGED <<messages, newMessage, replyToMessage, selectedChatId, now, sends,
                 dbMessages, dbChats>>

\* the sender and reply lookups resolve and setMessages runs (145-180), or one of
\* them rejects (182-184)
LoadEnrichDone(c, ok) ==
  /\ c \in msgCalls /\ c.kind = "load" /\ c.pc = "enrich"
  /\ msgCalls' = msgCalls \ {c}
  /\ IF ok
       THEN /\ messages' = WithReplies(c.rows, dbMessages)
            /\ sends' = Interfered(sends)
       ELSE UNCHANGED <<messages, sends>>
  /\ lastAction' = Settled(c, ok)
  /\ lastSend' = NoSend
  /\ UNCHANGED <<newMessage, replyToMessage, selectedChatId, now, dbMessages, dbChats>>

\* ============================================================ voice notes
NoRecorder == 0        \* mediaRecorder = null, recordingIntervalRef.current = null

RecorderIds == 1..MaxRecorders

\* the recorder objects, pending calls and intervals that exist; a recorder's
\* interval goes by the recorder's id
UsedRecorderIds ==
  {r.id : r \in recorders} \cup {c.id : c \in micCalls} \cup {c.id : c \in voiceCalls}
    \cup recIntervals

\* `Voice message (${recordingTime}s)`   (line 320)
VoiceContent(seconds) == <<"Voice message", seconds>>

\* onMouseDown of the Mic button (735-744): startRecording up to its await (296).
\* The recorder's onstop handler is the one written in this render: it reads the
\* recordingTime, audioChunks, selectedChatId and loadMessages of this call.
startRecording ==
  /\ ~held
  /\ RecorderIds \ UsedRecorderIds # {}
  /\ Len(audioChunks) + Cardinality(recorders) + Cardinality(micCalls) < MaxChunks
  /\ LET id == CHOOSE i \in RecorderIds \ UsedRecorderIds :
                  \A j \in RecorderIds \ UsedRecorderIds : i <= j
     IN micCalls' = micCalls \cup
          {[id |-> id, recordingTime |-> recordingTime, audioChunks |-> audioChunks,
            chat |-> selectedChatId]}
  /\ held' = TRUE
  /\ UNCHANGED <<isRecording, recordingTime, mediaRecorder, audioChunks,
                 recordingIntervalRef, recIntervals, recorders, voiceCalls>>

\* getUserMedia resolves and the recorder is started (296-341), or it rejects
\* (343-345)
GetUserMediaDone(c, ok) ==
  /\ c \in micCalls
  /\ micCalls' = micCalls \ {c}
  /\ IF ok
       THEN /\ recorders' = recorders \cup
                 {[id |-> c.id, state |-> "recording", recordingTime |-> c.recordingTime,
                   audioChunks |-> c.audioChunks, chat |-> c.chat, ticks |-> 0]}
            /\ mediaRecorder' = c.id
            /\ isRecording' = TRUE
            /\ recIntervals' = recIntervals \cup {c.id}
            /\ recordingIntervalRef' = c.id
       ELSE UNCHANGED <<recorders, mediaRecorder, isRecording, recIntervals,
                        recordingIntervalRef>>
  /\ UNCHANGED <<recordingTime, audioChunks, voiceCalls, held>>

\* mediaRecorder.stop()
StopRecorder(rs, id) ==
  {IF r.id = id /\ r.state = "recording" THEN [r EXCEPT !.state = "inactive"] ELSE r : r \in rs}

\* onMouseUp and onMouseLeave of the Mic button: stopRecording (349-361)
stopRecording ==
  /\ held' = FALSE
  /\ IF mediaRecorder # NoRecorder /\ isRecording
       THEN /\ recorders' = StopRecorder(recorders, mediaRecorder)
            /\ mediaRecorder' = NoRecorder
            /\ isRecording' = FALSE
            /\ recIntervals' = recIntervals \ {recordingIntervalRef}
            /\ recordingIntervalRef' = NoRecorder
       ELSE UNCHANGED <<recorders, mediaRecorder, isRecording, recIntervals,
                        recordingIntervalRef>>
  /\ UNCHANGED <<recordingTime, audioChunks, micCalls, voiceCalls>>

\* one firing of the interval of lines 338-340
RecordingTick(i) ==
  /\ i \in recIntervals
  /\ recordingTime < MaxSeconds
  /\ \A r \in recorders : r.ticks < MaxSeconds
  /\ recordingTime' = recordingTime + 1
  /\ recorders' = {IF r.id = i /\ r.state = "recording" THEN [r EXCEPT !.ticks = @ + 1] ELSE r :
                     r \in recorders}
  /\ UNCHANGED <<isRecording, mediaRecorder, audioChunks, recordingIntervalRef,
                 recIntervals, micCalls, voiceCalls, held>>

\* the events of a stopped recorder: ondataavailable (299-301), then onstop up
\* to its first await (303-311)
RecorderStopped(r) ==
  /\ r \in recorders /\ r.state = "inactive"
  /\ audioChunks' = Append(audioChunks, r.id)
  /\ voiceCalls' = voiceCalls \cup
       {[id |-> r.id, pc |-> "upload", audioBlob |-> r.audioChunks,
         recordingTime |-> r.recordingTime, chat |-> r.chat, ticks |-> r.ticks]}
  /\ recorders' = recorders \ {r}
  /\ UNCHANGED <<isRecording, recordingTime, mediaRecorder, recordingIntervalRef,
                 recIntervals, micCalls, held>>

\* storage.upload resolves (307-311) or rejects: onstop has no catch
VoiceUploadDone(c, ok) ==
  /\ c \in voiceCalls /\ c.pc = "upload"
  /\ voiceCalls' = IF ok THEN (voiceCalls \ {c}) \cup {[c EXCEPT !.pc = "create"]}
                   ELSE voiceCalls \ {c}
  /\ UNCHANGED <<isRecording, recordingTime, mediaRecorder, audioChunks,
                 recordingIntervalRef, recIntervals, recorders, micCalls, held>>
  /\ UNCHANGED <<dbMessages, msgCalls>>

\* the message of lines 313-329
VoiceMessage(c, t) ==
  [id |-> t, chatId |-> c.chat, senderId |-> currentUser,
   content |-> VoiceContent(c.recordingTime), replyToMessageId |-> NoMessage,
   isStarred |-> FALSE, createdAt |-> t, messageType |-> "audio", file |-> c.audioBlob]

\* messages.create resolves, then loadMessages(), setAudioChunks([]) and
\* setRecordingTime(0) run (316-333), or it rejects
VoiceCreateDone(c, ok) ==
  /\ c \in voiceCalls /\ c.pc = "create"
  /\ ok => ~IdTaken(now) /\ Cardinality(msgCalls) < MaxActions
  /\ voiceCalls' = voiceCalls \ {c}
  /\ IF ok
       THEN /\ dbMessages' = dbMessages \cup {VoiceMessage(c, now)}
            /\ msgCalls' = msgCalls \cup {LoadCall(c.chat, NoAction)}
            /\ audioChunks' = << >>
            /\ recordingTime' = 0
       ELSE UNCHANGED <<dbMessages, msgCalls, audioChunks, recordingTime>>
  /\ UNCHANGED <<isRecording, mediaRecorder, recordingIntervalRef, recIntervals,
                 recorders, micCalls, held>>

RecordingIdle ==
  /\ isRecording = FALSE /\ recordingTime = 0 /\ mediaRecorder = NoRecorder
  /\ audioChunks = << >> /\ recordingIntervalRef = NoRecorder
  /\ recIntervals = {} /\ recorders = {} /\ micCalls = {} /\ voiceCalls = {}
  /\ held = FALSE

\* ================================================ the conversation directory
Clients == {"u1", "u2"}        \* two signed-in users, each running the application
Idle    == [pc |-> "idle", remaining |-> {}]
NoStart == [outcome |-> "none"]

\* chatParticipants.list({ where: { userId } }): the chats of the records found
ChatsOf(u) == {p.chatId : p \in {q \in dbChatParticipants : q.userId = u}}

\* chatParticipants.list({ where: { AND: [{ chatId }, { userId }] } }).length > 0
IsParticipant(chat, u) == \E p \in dbChatParticipants : p.chatId = chat /\ p.userId = u

\* otherParticipants.length > 0 (line 286)
MatchFound(chat, u) == IsParticipant(chat, u)

Participants(chat) == {p.userId : p \in {q \in dbChatParticipants : q.chatId = chat}}

Busy == {u \in Clients : startCall[u].pc # "idle"}

\* a call that ends without a conversation: a store call rejected, caught at
\* ChatSidebar.tsx:297-299 or Stories.tsx:597-599
Aborted(x) ==
  /\ startCall' = [startCall EXCEPT ![x] = Idle]
  /\ lastStart' = [outcome |-> "failed"]
  /\ storeFailed' = TRUE
  /\ UNCHANGED <<appSelectedChatId, firstResolved, overlapped>>

\* a call that ends with a conversation selected: onChatSelect(participant.chatId)
\* (line 288) or setSelectedChatId(chatId) (Stories.tsx:595)
Resolved(x, chat, created) ==
  /\ startCall' = [startCall EXCEPT ![x] = Idle]
  /\ appSelectedChatId' = [appSelectedChatId EXCEPT ![x] = chat]
  /\ lastStart' = [outcome |-> "ok", by |-> x, chat |-> chat, created |-> created,
                   first |-> firstResolved]
  /\ firstResolved' = IF firstResolved = NoChat THEN chat ELSE firstResolved
  /\ UNCHANGED <<overlapped, storeFailed>>

\* App.handleNewChat up to its first await: Stories.tsx:562-578
NewChatBegin(x, y) ==
  /\ startCall' = [startCall EXCEPT ![x] =
       [pc |-> "createChat", target |-> y, remaining |-> {}, chatId |-> ChatId(now)]]
  /\ lastStart' = NoStart
  /\ UNCHANGED <<appSelectedChatId, firstResolved, overlapped, storeFailed>>

\* handleStartChat up to its first await: ChatSidebar.tsx:269-274; the users
\* offered are the other users (line 165), one call per client at a time
handleStartChat(x, y) ==
  /\ x # y
  /\ startCall[x].pc = "idle"
  /\ startCall' = [startCall EXCEPT ![x] = [pc |-> "list", target |-> y, remaining |-> {}]]
  /\ overlapped' = (overlapped \/ Busy # {})
  /\ lastStart' = NoStart
  /\ UNCHANGED <<chatVars, dbChatParticipants, appSelectedChatId, firstResolved, storeFailed>>

\* the list of the caller's memberships resolves (272-276) or rejects (297-299);
\* with nothing to enumerate the loop is skipped and onNewChat runs (295)
StartChatListDone(x, ok) ==
  /\ startCall[x].pc = "list"
  /\ IF ~ok THEN Aborted(x)
     ELSE IF ChatsOf(x) = {} THEN NewChatBegin(x, startCall[x].target)
     ELSE /\ startCall' = [startCall EXCEPT ![x].pc = "check", ![x].remaining = ChatsOf(x)]
          /\ lastStart' = NoStart
          /\ UNCHANGED <<appSelectedChatId, firstResolved, overlapped, storeFailed>>
  /\ UNCHANGED <<chatVars, dbChatParticipants>>

\* one turn of the loop, lines 276-292: the list call has no orderBy, so the next
\* membership examined is any of those not yet examined
StartChatCheckDone(x, chat, ok) ==
  /\ startCall[x].pc = "check"
  /\ chat \in startCall[x].remaining
  /\ IF ~ok THEN Aborted(x)
     ELSE IF MatchFound(chat, startCall[x].target) THEN Resolved(x, chat, FALSE)
     ELSE IF startCall[x].remaining = {chat} THEN NewChatBegin(x, startCall[x].target)
     ELSE /\ startCall' = [startCall EXCEPT ![x].remaining = @ \ {chat}]
          /\ lastStart' = NoStart
          /\ UNCHANGED <<appSelectedChatId, firstResolved, overlapped, storeFailed>>
  /\ UNCHANGED <<chatVars, dbChatParticipants>>

\* chats.create resolves (Stories.tsx:569-578) or rejects (597-599); the
\* collection is keyed by id
NewChatCreateDone(x, ok) ==
  /\ startCall[x].pc = "createChat"
  /\ ok => \A r \in dbChats : r.id # startCall[x].chatId
  /\ IF ok
       THEN /\ dbChats' = dbChats \cup
                 {[id |-> startCall[x].chatId, type |-> "individual", lastMessageAt |-> 0]}
            /\ startCall' = [startCall EXCEPT ![x].pc = "addSelf"]
            /\ lastStart' = NoStart
            /\ UNCHANGED <<appSelectedChatId, firstResolved, overlapped, storeFailed>>
       ELSE Aborted(x) /\ UNCHANGED dbChats
  /\ UNCHANGED <<chatLocal, now, dbChatParticipants>>

\* chatParticipants.create for the requester resolves (581-586) or rejects
NewChatAddSelfDone(x, ok) ==
  /\ startCall[x].pc = "addSelf"
  /\ ok => ~IsParticipant(startCall[x].chatId, x)
  /\ IF ok
       THEN /\ dbChatParticipants' = dbChatParticipants \cup
                 {[chatId |-> startCall[x].chatId, userId |-> x]}
            /\ startCall' = [startCall EXCEPT ![x].pc = "addOther"]
            /\ lastStart' = NoStart
            /\ UNCHANGED <<appSelectedChatId, firstResolved, overlapped, storeFailed>>
       ELSE Aborted(x) /\ UNCHANGED dbChatParticipants
  /\ UNCHANGED chatVars

\* chatParticipants.create for the counterpart resolves (588-596) or rejects
NewChatAddOtherDone(x, ok) ==
  /\ startCall[x].pc = "addOther"
  /\ ok => ~IsParticipant(startCall[x].chatId, startCall[x].target)
  /\ IF ok
       THEN /\ dbChatParticipants' = dbChatParticipants \cup
                 {[chatId |-> startCall[x].chatId, userId |-> startCall[x].target]}
            /\ Resolved(x, startCall[x].chatId, TRUE)
       ELSE Aborted(x) /\ UNCHANGED dbChatParticipants
  /\ UNCHANGED chatVars

\* what the store holds when the clients start: nothing, or conversations made in
\* earlier sessions: the group Chat2 of both users (handleCreateGroup), and the
\* individual conversation Chat1 of the two
PriorDirectories ==
  { {}, {Chat2}, {Chat1, Chat2} }

InitDirectory ==
  /\ \E d \in PriorDirectories :
       /\ dbChats = {r \in PriorChats : r.id \in d}
       /\ dbChatParticipants = {[chatId |-> c, userId |-> u] : c \in d, u \in Clients}
  /\ startCall = [u \in Clients |-> Idle]
  /\ appSelectedChatId = [u \in Clients |-> NoChat]
  /\ lastStart = NoStart
  /\ firstResolved = NoChat
  /\ overlapped = FALSE
  /\ storeFailed = FALSE
  /\ messages = << >> /\ newMessage = << >> /\ replyToMessage = NoReply
  /\ selectedChatId = NoChat /\ now = 1 /\ sends = << >>
  /\ dbMessages = {}
  /\ lastSend = NoSend

\* ============================================================ story library
StoryTTL == 24 * 60 * 60 * 1000      \* now + (24 * 60 * 60 * 1000)
NoLoad   == [outcome |-> "none"]

\* the readings of Date.now() in a run: two moments, and the moments a day after
\* them with the millisecond before and after
ClockReadings == {1, 2, StoryTTL, StoryTTL + 1, StoryTTL + 2}

ActiveGte(story, t) == story.expiresAt >= t

\* where: { expiresAt: { gt: now } }   (line 60)
Active(story, t) == story.expiresAt > t

\* const expiresAt = now + (24 * 60 * 60 * 1000)   (line 127)
ExpiresAt(t) == t + StoryTTL

\* orderBy: { createdAt: 'desc' }
RECURSIVE SortByCreatedAtDesc(_)
SortByCreatedAtDesc(rows) ==
  IF rows = {} THEN << >>
  ELSE LET first == CHOOSE r \in rows : \A q \in rows : r.createdAt >= q.createdAt
       IN <<first>> \o SortByCreatedAtDesc(rows \ {first})

\* stories.list({ where: { expiresAt: { gt: now } }, orderBy: { createdAt: 'desc' } })
ListActive(t) == SortByCreatedAtDesc({st \in dbStories : Active(st, t)})

\* storyViews.list({ where: { storyId } }), as the number of records
ViewCount(id) == IF id \in DOMAIN dbStoryViews THEN dbStoryViews[id] ELSE 0

\* storiesWithUsers.filter(s => ...)   (lines 99-100)
RECURSIVE SelectStories(_, _)
SelectStories(rows, mine) ==
  IF rows = << >> THEN << >>
  ELSE IF (Head(rows).userId = currentUser) = mine
         THEN <<Head(rows)>> \o SelectStories(Tail(rows), mine)
         ELSE SelectStories(Tail(rows), mine)

WithViews(rows) == [i \in 1..Len(rows) |->
                      [id |-> rows[i].id, userId |-> rows[i].userId,
                       createdAt |-> rows[i].createdAt, expiresAt |-> rows[i].expiresAt,
                       views |-> ViewCount(rows[i].id)]]

StoryLoad(t) == [kind |-> "load", pc |-> "list", t |-> t, rows |-> << >>, store |-> {}]

\* Date.now() moves on
TimePasses(r) ==
  /\ r > now
  /\ now' = r
  /\ lastLoad' = NoLoad
  /\ UNCHANGED <<dbStories, storyCalls, myStories, stories, dbStoryViews>>

\* loadStories up to its first await (lines 54-62): the effect of line 109
loadStories ==
  /\ Cardinality(storyCalls) < MaxStoryCalls
  /\ storyCalls' = storyCalls \cup {StoryLoad(now)}
  /\ lastLoad' = NoLoad
  /\ UNCHANGED <<dbStories, now, myStories, stories, dbStoryViews>>

\* stories.list resolves (59-62) or rejects (104-106)
LoadStoriesListDone(c, ok) ==
  /\ c \in storyCalls /\ c.kind = "load" /\ c.pc = "list"
  /\ storyCalls' = IF ok
       THEN (storyCalls \ {c}) \cup
              {[c EXCEPT !.pc = "enrich", !.rows = ListActive(c.t), !.store = dbStories]}
       ELSE storyCalls \ {c}
  /\ lastLoad' = NoLoad
  /\ UNCHANGED <<dbStories, now, myStories, stories, dbStoryViews>>

\* the user and view lookups resolve and the two lists are set (65-102), or one
\* of them rejects (104-106)
LoadStoriesEnrichDone(c, ok) ==
  /\ c \in storyCalls /\ c.kind = "load" /\ c.pc = "enrich"
  /\ storyCalls' = storyCalls \ {c}
  /\ IF ok
       THEN /\ myStories' = SelectStories(WithViews(c.rows), TRUE)
            /\ stories' = SelectStories(WithViews(c.rows), FALSE)
            /\ lastLoad' = [outcome |-> "ok", t |-> c.t, store |-> c.store,
                            result |-> {(myStories' \o stories')[i].id :
                                          i \in 1..Len(myStories' \o stories')}]
       ELSE /\ UNCHANGED <<myStories, stories>>
            /\ lastLoad' = NoLoad
  /\ UNCHANGED <<dbStories, now, dbStoryViews>>

\* handleAddStory up to its first await: lines 114-122
handleAddStory ==
  /\ Cardinality(storyCalls) < MaxStoryCalls
  /\ storyCalls' = storyCalls \cup {[kind |-> "add", pc |-> "upload", t |-> 0]}
  /\ lastLoad' = NoLoad
  /\ UNCHANGED <<dbStories, now, myStories, stories, dbStoryViews>>

\* the upload resolves and the story is built (118-136), or it rejects (142-144)
AddStoryUploadDone(c, ok) ==
  /\ c \in storyCalls /\ c.kind = "add" /\ c.pc = "upload"
  /\ storyCalls' = IF ok
       THEN (storyCalls \ {c}) \cup {[c EXCEPT !.pc = "create", !.t = now]}
       ELSE storyCalls \ {c}
  /\ lastLoad' = NoLoad
  /\ UNCHANGED <<dbStories, now, myStories, stories, dbStoryViews>>

\* a story record as stories.create writes it (lines 129-137)
StoryRecord(t, user) ==
  [id |-> t, userId |-> user, createdAt |-> t, expiresAt |-> ExpiresAt(t)]

\* stories.create resolves and loadStories() is called (129-141), or it rejects
\* (142-144); the collection is keyed by id
AddStoryCreateDone(c, ok) ==
  /\ c \in storyCalls /\ c.kind = "add" /\ c.pc = "create"
  /\ ok => /\ \A st \in dbStories : st.id # c.t
           /\ Cardinality(dbStories) < MaxLibrary
  /\ IF ok
       THEN /\ dbStories' = dbStories \cup {StoryRecord(c.t, currentUser)}
            /\ storyCalls' = (storyCalls \ {c}) \cup {StoryLoad(now)}
       ELSE /\ storyCalls' = storyCalls \ {c}
            /\ UNCHANGED dbStories
  /\ lastLoad' = NoLoad
  /\ UNCHANGED <<now, myStories, stories, dbStoryViews>>

\* the client of another user: its stories.create resolves
PeerAddsStory(u) ==
  /\ u \in Users \ {currentUser}
  /\ \A st \in dbStories : st.id # now
  /\ Cardinality(dbStories) < MaxLibrary
  /\ dbStories' = dbStories \cup {StoryRecord(now, u)}
  /\ lastLoad' = NoLoad
  /\ UNCHANGED <<storyCalls, now, myStories, stories, dbStoryViews>>

\* the client of another user: its storyViews.create for a stored story resolves
PeerViewsStory(st) ==
  /\ st \in dbStories /\ st.id \in DOMAIN dbStoryViews
  /\ dbStoryViews[st.id] < MaxDup
  /\ dbStoryViews' = [dbStoryViews EXCEPT ![st.id] = @ + 1]
  /\ lastLoad' = NoLoad
  /\ UNCHANGED <<dbStories, storyCalls, now, myStories, stories>>

\* ================================================================= presence
KnownUser == [isOnline |-> FALSE, lastSeen |-> 0]

\* users.update(id, { isOnline, lastSeen: Date.now() }) is issued
PresenceWrite(kind) == [kind |-> kind, lastSeen |-> now]

\* the store applies the patch as sent
ApplyLastSeen(stored, patch) == patch.lastSeen

\* initializeUser for a user the store knows, up to the await of users.update
\* (lines 486-497)
MarkOnline ==
  /\ session \in {"signedOut", "closed"}
  /\ Cardinality(presenceWrites) < MaxPresence
  /\ session' = "starting"
  /\ presenceWrites' = presenceWrites \cup {PresenceWrite("online")}
  /\ UNCHANGED <<dbUser, now>>

\* the interval callback of lines 626-634, while currentUser is set
Heartbeat ==
  /\ session = "ready"
  /\ Cardinality(presenceWrites) < MaxPresence
  /\ presenceWrites' = presenceWrites \cup {PresenceWrite("heartbeat")}
  /\ UNCHANGED <<session, dbUser, now>>

\* handleBeforeUnload (lines 608-615): the page goes away, the write is on its way
MarkOffline ==
  /\ session = "ready"
  /\ Cardinality(presenceWrites) < MaxPresence
  /\ session' = "closed"
  /\ presenceWrites' = presenceWrites \cup {PresenceWrite("offline")}
  /\ UNCHANGED <<dbUser, now>>

\* a users.update resolves or rejects; the one of initializeUser is followed by
\* setCurrentUser (line 539) or by the catch block (540-542)
PresenceWriteDone(w, ok) ==
  /\ w \in presenceWrites
  /\ presenceWrites' = presenceWrites \ {w}
  /\ dbUser' = IF ok
       THEN [isOnline |-> IF w.kind = "heartbeat" THEN dbUser.isOnline
                          ELSE w.kind = "online",
             lastSeen |-> ApplyLastSeen(dbUser, w)]
       ELSE dbUser
  /\ session' = IF w.kind = "online" /\ session = "starting"
                  THEN (IF ok THEN "ready" ELSE "signedOut")
                  ELSE session
  /\ UNCHANGED now

\* ============================================================ group creation
NoGroupCall == [pc |-> "idle"]
NoGroup     == [outcome |-> "none"]

GroupId(t) == <<"group", t>>

\* the names typed into the dialog: empty, blank, a letter
GroupNames == {<< >>, <<" ">>, <<"g">>}

\* the users the dialog lists: allUsers, loaded with id != currentUser.id (165)
OtherUsers == Users \ {currentUser}

RoleAlwaysAdmin(userId, creator) == "admin"

\* role: userId === currentUser!.id ? 'admin' : 'member'   (line 337)
RoleOf(userId, creator) == IF userId = creator THEN "admin" ELSE "member"

CreateGuardNoTrim(name, members) == name # << >> /\ Len(members) # 0

\* if (!groupName.trim() || selectedUsers.length === 0) return   (line 303)
CreateGuard(name, members) == Trim(name) # << >> /\ Len(members) # 0

RECURSIVE Without(_, _)
Without(seq, x) ==
  IF seq = << >> THEN << >>
  ELSE IF Head(seq) = x THEN Without(Tail(seq), x) ELSE <<Head(seq)>> \o Without(Tail(seq), x)

\* the handleCreateGroup call made in the last step: what it was called with
GroupCalled ==
  [outcome |-> "called", name |-> groupName, members |-> selectedUsers,
   shown |-> showNewGroupDialog, call |-> groupCall,
   store |-> <<dbGroups, dbChats, dbGroupMembers, dbChatParticipants, dbMessages>>]

\* the dialog's trigger and onOpenChange (line 431)
ToggleGroupDialog ==
  /\ showNewGroupDialog' = ~showNewGroupDialog
  /\ lastGroup' = NoGroup
  /\ UNCHANGED <<groupName, selectedUsers, groupCall, dbGroups, dbGroupMembers>>

\* the name input's onChange (line 445)
TypeGroupName(n) ==
  /\ showNewGroupDialog /\ groupName # n
  /\ groupName' = n
  /\ lastGroup' = NoGroup
  /\ UNCHANGED <<selectedUsers, showNewGroupDialog, groupCall, dbGroups, dbGroupMembers>>

\* a click on a user of the list (lines 457-463)
ToggleUser(u) ==
  /\ showNewGroupDialog
  /\ selectedUsers' = IF \E i \in 1..Len(selectedUsers) : selectedUsers[i] = u
                        THEN Without(selectedUsers, u)
                        ELSE Append(selectedUsers, u)
  /\ lastGroup' = NoGroup
  /\ UNCHANGED <<groupName, showNewGroupDialog, groupCall, dbGroups, dbGroupMembers>>

\* the catch block, lines 365-367
GroupFailed ==
  /\ groupCall' = NoGroupCall
  /\ lastGroup' = [outcome |-> "failed"]

\* handleCreateGroup up to its first await: lines 303-317
handleCreateGroup ==
  /\ showNewGroupDialog
  /\ groupCall = NoGroupCall
  /\ IF CreateGuard(groupName, selectedUsers)
       THEN groupCall' = [pc |-> "group", groupId |-> GroupId(now),
                          chatId |-> <<"chat_group", now>>, name |-> groupName,
                          allMembers |-> <<currentUser>> \o selectedUsers, i |-> 1]
       ELSE UNCHANGED groupCall
  /\ lastGroup' = GroupCalled
  /\ UNCHANGED <<groupName, selectedUsers, showNewGroupDialog, dbGroups, dbGroupMembers,
                 dbChats, dbChatParticipants, dbMessages, appSelectedChatId>>

\* groups.create resolves (310-317) or rejects; the collection is keyed by id
GroupCreateDone(ok) ==
  /\ groupCall.pc = "group"
  /\ ok => groupCall.groupId \notin dbGroups
  /\ IF ok
       THEN /\ dbGroups' = dbGroups \cup {groupCall.groupId}
            /\ groupCall' = [groupCall EXCEPT !.pc = "chat"]
            /\ lastGroup' = NoGroup
       ELSE GroupFailed /\ UNCHANGED dbGroups
  /\ UNCHANGED <<groupName, selectedUsers, showNewGroupDialog, dbGroupMembers,
                 dbChats, dbChatParticipants, dbMessages, appSelectedChatId>>

\* chats.create resolves (320-328) or rejects
GroupChatDone(ok) ==
  /\ groupCall.pc = "chat"
  /\ ok => \A r \in dbChats : r.id # groupCall.chatId
  /\ IF ok
       THEN /\ dbChats' = dbChats \cup
                 {[id |-> groupCall.chatId, type |-> "group", lastMessageAt |-> now]}
            /\ groupCall' = [groupCall EXCEPT !.pc = "member"]
            /\ lastGroup' = NoGroup
       ELSE GroupFailed /\ UNCHANGED dbChats
  /\ UNCHANGED <<groupName, selectedUsers, showNewGroupDialog, dbGroups, dbGroupMembers,
                 dbChatParticipants, dbMessages, appSelectedChatId>>

\* groupMembers.create of the loop resolves (333-339) or rejects
GroupMemberDone(ok) ==
  /\ groupCall.pc = "member"
  /\ LET userId == groupCall.allMembers[groupCall.i]
     IN /\ ok => \A r \in dbGroupMembers :
                   ~(r.groupId = groupCall.groupId /\ r.userId = userId)
        /\ IF ok
             THEN /\ dbGroupMembers' = dbGroupMembers \cup
                       {[groupId |-> groupCall.groupId, userId |-> userId,
                         role |-> RoleOf(userId, currentUser)]}
                  /\ groupCall' = [groupCall EXCEPT !.pc = "participant"]
                  /\ lastGroup' = NoGroup
             ELSE GroupFailed /\ UNCHANGED dbGroupMembers
  /\ UNCHANGED <<groupName, selectedUsers, showNewGroupDialog, dbGroups, dbChats,
                 dbChatParticipants, dbMessages, appSelectedChatId>>

\* chatParticipants.create of the loop resolves (341-346) or rejects; after the
\* last member the welcome message is issued
GroupParticipantDone(ok) ==
  /\ groupCall.pc = "participant"
  /\ LET userId == groupCall.allMembers[groupCall.i]
     IN /\ ok => ~IsParticipant(groupCall.chatId, userId)
        /\ IF ok
             THEN /\ dbChatParticipants' = dbChatParticipants \cup
                       {[chatId |-> groupCall.chatId, userId |-> userId]}
                  /\ groupCall' = IF groupCall.i < Len(groupCall.allMembers)
                                    THEN [groupCall EXCEPT !.pc = "member", !.i = @ + 1]
                                    ELSE [groupCall EXCEPT !.pc = "message", !.i = now]
                  /\ lastGroup' = NoGroup
             ELSE GroupFailed /\ UNCHANGED dbChatParticipants
  /\ UNCHANGED <<groupName, selectedUsers, showNewGroupDialog, dbGroups, dbGroupMembers,
                 dbChats, dbMessages, appSelectedChatId>>

\* messages.create of the welcome message resolves and the dialog is reset and
\* the chat selected (350-364), or it rejects (365-367)
GroupMessageDone(ok) ==
  /\ groupCall.pc = "message"
  /\ ok => ~IdTaken(groupCall.i)
  /\ IF ok
       THEN /\ dbMessages' = dbMessages \cup
                 {[id |-> groupCall.i, chatId |-> groupCall.chatId,
                   senderId |-> currentUser, content |-> groupCall.name,
                   replyToMessageId |-> NoMessage, isStarred |-> FALSE,
                   createdAt |-> groupCall.i]}
            /\ showNewGroupDialog' = FALSE
            /\ groupName' = << >>
            /\ selectedUsers' = << >>
            /\ appSelectedChatId' = [appSelectedChatId EXCEPT ![currentUser] = groupCall.chatId]
            /\ groupCall' = NoGroupCall
            /\ lastGroup' = [outcome |-> "ok", groupId |-> groupCall.groupId,
                             chatId |-> groupCall.chatId, creator |-> currentUser,
                             members |-> {groupCall.allMembers[k] :
                                            k \in 2..Len(groupCall.allMembers)}]
       ELSE /\ GroupFailed
            /\ UNCHANGED <<dbMessages, showNewGroupDialog, groupName, selectedUsers,
                           appSelectedChatId>>
  /\ UNCHANGED <<dbGroups, dbGroupMembers, dbChats, dbChatParticipants>>

GroupsIdle ==
  /\ lastView = NoView
  /\ RecordingIdle
  /\ dbStories = {} /\ storyCalls = {} /\ lastLoad = NoLoad
  /\ session = "signedOut" /\ presenceWrites = {} /\ dbUser = KnownUser
  /\ groupName = << >> /\ selectedUsers = << >> /\ showNewGroupDialog = FALSE
  /\ groupCall = NoGroupCall /\ dbGroups = {} /\ dbGroupMembers = {}
  /\ lastGroup = NoGroup

DirectoryIdle ==
  /\ dbChatParticipants = {}
  /\ startCall = [u \in Clients |-> Idle]
  /\ appSelectedChatId = [u \in Clients |-> NoChat]
  /\ lastStart = NoStart /\ firstResolved = NoChat
  /\ overlapped = FALSE /\ storeFailed = FALSE

\* the store check of call c has ended in this step, or the call is still suspended
ViewSettled(c, ok) ==
  IF \E d \in viewCalls' : d.id = c.id /\ d.story = c.story /\ d.pc = "create" /\ c.pc = "list"
    THEN NoView
    ELSE [outcome |-> "done", story |-> c.story, clean |-> c.clean, ok |-> ok,
          startCount |-> c.startCount]

PlaybackFrame == UNCHANGED <<chatVars, dirVars, actVars, grpVars, libVars, presVars, recVars>>

NextPlayback ==
  \/ PlaybackFrame /\ lastView' = NoView /\ \E i \in 0..(MaxStories - 1) : OpenStory(i)
  \/ PlaybackFrame /\ \E c \in viewCalls, ok \in BOOLEAN :
                         ViewListDone(c, ok) /\ lastView' = ViewSettled(c, ok)
  \/ PlaybackFrame /\ \E c \in viewCalls, ok \in BOOLEAN :
                         ViewCreateDone(c, ok) /\ lastView' = ViewSettled(c, ok)
  \/ PlaybackFrame /\ lastView' = NoView /\ \E t \in timers : Tick(t)
  \/ PlaybackFrame /\ lastView' = NoView /\ closeStoryViewer
  \/ PlaybackFrame /\ lastView' = NoView /\ nextStory
  \/ PlaybackFrame /\ lastView' = NoView /\ prevStory

\* the viewer while no interval fires
NextViews ==
  \/ PlaybackFrame /\ lastView' = NoView /\ \E i \in 0..(MaxStories - 1) : OpenStory(i)
  \/ PlaybackFrame /\ \E c \in viewCalls, ok \in BOOLEAN :
                         ViewListDone(c, ok) /\ lastView' = ViewSettled(c, ok)
  \/ PlaybackFrame /\ \E c \in viewCalls, ok \in BOOLEAN :
                         ViewCreateDone(c, ok) /\ lastView' = ViewSettled(c, ok)
  \/ PlaybackFrame /\ lastView' = NoView /\ closeStoryViewer
  \/ PlaybackFrame /\ lastView' = NoView /\ nextStory
  \/ PlaybackFrame /\ lastView' = NoView /\ prevStory

NextChat ==
  \/ UNCHANGED <<libVars, presVars, recVars, lastView, storyVars, dirVars, actVars, grpVars>>
       /\ \E d \in Drafts : TypeMessage(d)
  \/ UNCHANGED <<libVars, presVars, recVars, lastView, storyVars, dirVars, actVars, grpVars>>
       /\ \E i \in 1..Len(messages) : ReplyAction(messages[i])
  \/ UNCHANGED <<libVars, presVars, recVars, lastView, storyVars, dirVars, actVars, grpVars>> /\ CancelReply
  \/ UNCHANGED <<libVars, presVars, recVars, lastView, storyVars, dirVars, actVars, grpVars>> /\ ClockTick
  \/ UNCHANGED <<libVars, presVars, recVars, lastView, storyVars, dirVars, actVars, grpVars>> /\ sendMessage
  \/ UNCHANGED <<libVars, presVars, recVars, lastView, storyVars, dirVars, actVars, grpVars>>
       /\ \E i \in 1..Len(sends), ok \in BOOLEAN : SendCreateDone(i, ok)
  \/ UNCHANGED <<libVars, presVars, recVars, lastView, storyVars, dirVars, actVars, grpVars>>
       /\ \E i \in 1..Len(sends), ok \in BOOLEAN : SendUpdateDone(i, ok)

NextDirectory ==
  \/ UNCHANGED <<libVars, presVars, recVars, lastView, storyVars, actVars, grpVars>>
       /\ \E x \in Clients, y \in Clients : handleStartChat(x, y)
  \/ UNCHANGED <<libVars, presVars, recVars, lastView, storyVars, actVars, grpVars>>
       /\ \E x \in Clients, ok \in BOOLEAN : StartChatListDone(x, ok)
  \/ UNCHANGED <<libVars, presVars, recVars, lastView, storyVars, actVars, grpVars>>
       /\ \E x \in Clients, ok \in BOOLEAN :
                              \E c \in startCall[x].remaining : StartChatCheckDone(x, c, ok)
  \/ UNCHANGED <<libVars, presVars, recVars, lastView, storyVars, actVars, grpVars>>
       /\ \E x \in Clients, ok \in BOOLEAN : NewChatCreateDone(x, ok)
  \/ UNCHANGED <<libVars, presVars, recVars, lastView, storyVars, actVars, grpVars>>
       /\ \E x \in Clients, ok \in BOOLEAN : NewChatAddSelfDone(x, ok)
  \/ UNCHANGED <<libVars, presVars, recVars, lastView, storyVars, actVars, grpVars>>
       /\ \E x \in Clients, ok \in BOOLEAN : NewChatAddOtherDone(x, ok)
  \/ UNCHANGED <<libVars, presVars, recVars, lastView, storyVars, dirVars, actVars, grpVars>> /\ ClockTick

ActionsIdle == msgCalls = {} /\ lastAction = NoAction /\ ops = 0

UserOp == ops < MaxOps /\ ops' = ops + 1

NextMessages ==
  \/ UNCHANGED <<libVars, presVars, recVars, lastView, storyVars, dirVars, grpVars, msgCalls>>
       /\ lastAction' = NoAction /\ UserOp
       /\ \E d \in Drafts : TypeMessage(d)
  \/ UNCHANGED <<libVars, presVars, recVars, lastView, storyVars, dirVars, grpVars, msgCalls>>
       /\ lastAction' = NoAction /\ UserOp
       /\ \E i \in 1..Len(messages) : ReplyAction(messages[i])
  \/ UNCHANGED <<libVars, presVars, recVars, lastView, storyVars, dirVars, grpVars, msgCalls>>
       /\ lastAction' = NoAction /\ UserOp
       /\ CancelReply
  \/ UNCHANGED <<libVars, presVars, recVars, lastView, storyVars, dirVars, grpVars, msgCalls, ops>>
       /\ lastAction' = NoAction /\ ClockTick
  \/ UNCHANGED <<libVars, presVars, recVars, lastView, storyVars, dirVars, grpVars, msgCalls>>
       /\ lastAction' = NoAction /\ UserOp
       /\ sendMessage
  \/ UNCHANGED <<libVars, presVars, recVars, lastView, storyVars, dirVars, grpVars, msgCalls, ops>>
       /\ lastAction' = NoAction
       /\ \E i \in 1..Len(sends), ok \in BOOLEAN : SendCreateDone(i, ok)
  \/ UNCHANGED <<libVars, presVars, recVars, lastView, storyVars, dirVars, grpVars, msgCalls, ops>>
       /\ lastAction' = NoAction
       /\ \E i \in 1..Len(sends), ok \in BOOLEAN : SendUpdateDone(i, ok)
  \/ UNCHANGED <<libVars, presVars, recVars, lastView, storyVars, dirVars, grpVars>>
       /\ UserOp /\ \E c \in Chats : SelectChat(c)
  \/ UNCHANGED <<libVars, presVars, recVars, lastView, storyVars, dirVars, grpVars>> /\ UserOp
       /\ \E i \in 1..Len(messages) : StarAction(messages[i])
  \/ UNCHANGED <<libVars, presVars, recVars, lastView, storyVars, dirVars, grpVars>> /\ UserOp
       /\ \E i \in 1..Len(messages) : DeleteAction(messages[i])
  \/ UNCHANGED <<libVars, presVars, recVars, lastView, storyVars, dirVars, grpVars, ops>>
       /\ \E c \in msgCalls, ok \in BOOLEAN : StarWriteDone(c, ok)
  \/ UNCHANGED <<libVars, presVars, recVars, lastView, storyVars, dirVars, grpVars, ops>>
       /\ \E c \in msgCalls, ok \in BOOLEAN : DeleteWriteDone(c, ok)
  \/ UNCHANGED <<libVars, presVars, recVars, lastView, storyVars, dirVars, grpVars, ops>>
       /\ \E c \in msgCalls, ok \in BOOLEAN : LoadListDone(c, ok)
  \/ UNCHANGED <<libVars, presVars, recVars, lastView, storyVars, dirVars, grpVars, ops>>
       /\ \E c \in msgCalls, ok \in BOOLEAN : LoadEnrichDone(c, ok)
  \/ UNCHANGED <<libVars, presVars, recVars, lastView, storyVars, dirVars, grpVars, ops>>
       /\ \E r \in dbMessages : PeerDelete(r)

InitPlayback == InitStories /\ ChatIdle /\ DirectoryIdle /\ ActionsIdle /\ GroupsIdle

SpecPlayback == InitPlayback /\ [][NextPlayback]_vars

SpecViews == InitPlayback /\ [][NextViews]_vars

InitChatOpen == InitChat /\ StoriesIdle /\ DirectoryIdle /\ ActionsIdle /\ GroupsIdle

SpecChat == InitChatOpen /\ [][NextChat]_vars

InitDirectoryOpen == InitDirectory /\ StoriesIdle /\ ActionsIdle /\ GroupsIdle

SpecDirectory == InitDirectoryOpen /\ [][NextDirectory]_vars

SpecMessages == InitChatOpen /\ [][NextMessages]_vars

\* the sidebar of currentUser with the store as the directory left it
NextGroups ==
  \/ UNCHANGED <<libVars, presVars, recVars, lastView, storyVars, chatVars, dirVars, actVars>>
       /\ ToggleGroupDialog
  \/ UNCHANGED <<libVars, presVars, recVars, lastView, storyVars, chatVars, dirVars, actVars>>
       /\ \E n \in GroupNames : TypeGroupName(n)
  \/ UNCHANGED <<libVars, presVars, recVars, lastView, storyVars, chatVars, dirVars, actVars>>
       /\ \E u \in OtherUsers : ToggleUser(u)
  \/ UNCHANGED <<libVars, presVars, recVars, lastView, storyVars, chatLocal, now, actVars, dbChatParticipants, startCall,
                 lastStart, firstResolved, overlapped, storeFailed>>
       /\ handleCreateGroup
  \/ UNCHANGED <<libVars, presVars, recVars, lastView, storyVars, chatLocal, now, actVars, dbChatParticipants, startCall,
                 lastStart, firstResolved, overlapped, storeFailed>>
       /\ \E ok \in BOOLEAN : GroupCreateDone(ok)
  \/ UNCHANGED <<libVars, presVars, recVars, lastView, storyVars, messages, newMessage, replyToMessage, selectedChatId, sends,
                 lastSend, now, actVars, startCall,
                 lastStart, firstResolved, overlapped, storeFailed>>
       /\ \E ok \in BOOLEAN : GroupChatDone(ok)
  \/ UNCHANGED <<libVars, presVars, recVars, lastView, storyVars, chatLocal, now, actVars, startCall,
                 lastStart, firstResolved, overlapped, storeFailed>>
       /\ \E ok \in BOOLEAN : GroupMemberDone(ok)
  \/ UNCHANGED <<libVars, presVars, recVars, lastView, storyVars, messages, newMessage, replyToMessage, selectedChatId, sends,
                 lastSend, now, dbChats, actVars, startCall,
                 lastStart, firstResolved, overlapped, storeFailed>>
       /\ \E ok \in BOOLEAN : GroupParticipantDone(ok)
  \/ UNCHANGED <<libVars, presVars, recVars, lastView, storyVars, messages, newMessage, replyToMessage, selectedChatId, sends,
                 lastSend, now, dbChats, actVars, startCall,
                 lastStart, firstResolved, overlapped, storeFailed>>
       /\ \E ok \in BOOLEAN : GroupMessageDone(ok)
  \/ UNCHANGED <<libVars, presVars, recVars, lastView, storyVars, dirVars, actVars, groupName, selectedUsers,
                 showNewGroupDialog, groupCall, dbGroups, dbGroupMembers>>
       /\ lastGroup' = NoGroup /\ ClockTick

InitGroups == InitDirectory /\ StoriesIdle /\ ActionsIdle /\ GroupsIdle

SpecGroups == InitGroups /\ [][NextGroups]_vars

\* the conversation pane and the group dialog of one client together
GroupFrame == UNCHANGED <<libVars, presVars, recVars, lastView, storyVars, dirVars, msgCalls, lastAction, groupName,
                          selectedUsers, showNewGroupDialog, groupCall, dbGroups,
                          dbGroupMembers>>

ChatFrame == UNCHANGED <<libVars, presVars, recVars, lastView, storyVars, messages, newMessage, replyToMessage, selectedChatId,
                         sends, now, msgCalls, lastAction, startCall, lastStart,
                         firstResolved, overlapped, storeFailed>>

NextInput ==
  \/ GroupFrame /\ lastGroup' = NoGroup /\ UserOp /\ \E d \in Drafts : TypeMessage(d)
  \/ GroupFrame /\ lastGroup' = NoGroup /\ UserOp
       /\ \E i \in 1..Len(messages) : ReplyAction(messages[i])
  \/ GroupFrame /\ lastGroup' = NoGroup /\ UserOp /\ CancelReply
  \/ GroupFrame /\ lastGroup' = NoGroup /\ UNCHANGED ops /\ ClockTick
  \/ GroupFrame /\ UserOp /\ sendMessage
       /\ lastGroup' = IF SendGuard(newMessage, selectedChatId) THEN NoGroup ELSE lastGroup
  \/ GroupFrame /\ lastGroup' = NoGroup /\ UNCHANGED ops
       /\ \E i \in 1..Len(sends), ok \in BOOLEAN : SendCreateDone(i, ok)
  \/ GroupFrame /\ lastGroup' = NoGroup /\ UNCHANGED ops
       /\ \E i \in 1..Len(sends), ok \in BOOLEAN : SendUpdateDone(i, ok)
  \/ ChatFrame /\ lastSend' = NoSend /\ UserOp /\ ToggleGroupDialog
       /\ UNCHANGED <<dbMessages, dbChats, dbChatParticipants, appSelectedChatId>>
  \/ ChatFrame /\ lastSend' = NoSend /\ UserOp /\ \E n \in GroupNames : TypeGroupName(n)
       /\ UNCHANGED <<dbMessages, dbChats, dbChatParticipants, appSelectedChatId>>
  \/ ChatFrame /\ lastSend' = NoSend /\ UserOp /\ \E u \in OtherUsers : ToggleUser(u)
       /\ UNCHANGED <<dbMessages, dbChats, dbChatParticipants, appSelectedChatId>>
  \/ ChatFrame /\ UserOp /\ handleCreateGroup
       /\ lastSend' = IF CreateGuard(groupName, selectedUsers) THEN NoSend ELSE lastSend
  \/ ChatFrame /\ lastSend' = NoSend /\ UNCHANGED ops
       /\ \E ok \in BOOLEAN : GroupCreateDone(ok)
  \/ ChatFrame /\ lastSend' = NoSend /\ UNCHANGED ops
       /\ \E ok \in BOOLEAN : GroupChatDone(ok)
  \/ ChatFrame /\ lastSend' = NoSend /\ UNCHANGED ops
       /\ \E ok \in BOOLEAN : GroupMemberDone(ok)
  \/ ChatFrame /\ lastSend' = NoSend /\ UNCHANGED ops
       /\ \E ok \in BOOLEAN : GroupParticipantDone(ok)
  \/ ChatFrame /\ lastSend' = NoSend /\ UNCHANGED ops
       /\ \E ok \in BOOLEAN : GroupMessageDone(ok)

SpecInput == InitChatOpen /\ [][NextInput]_vars

LibraryFrame == UNCHANGED <<viewerVars, chatLocal, dbChats, dirVars, actVars, grpVars,
                            lastView, presVars, recVars>>

NextStories ==
  \/ LibraryFrame /\ \E r \in ClockReadings : TimePasses(r)
  \/ LibraryFrame /\ loadStories
  \/ LibraryFrame /\ \E c \in storyCalls, ok \in BOOLEAN : LoadStoriesListDone(c, ok)
  \/ LibraryFrame /\ \E c \in storyCalls, ok \in BOOLEAN : LoadStoriesEnrichDone(c, ok)
  \/ LibraryFrame /\ handleAddStory
  \/ LibraryFrame /\ \E c \in storyCalls, ok \in BOOLEAN : AddStoryUploadDone(c, ok)
  \/ LibraryFrame /\ \E c \in storyCalls, ok \in BOOLEAN : AddStoryCreateDone(c, ok)
  \/ LibraryFrame /\ \E u \in Users : PeerAddsStory(u)
  \/ LibraryFrame /\ \E st \in dbStories : PeerViewsStory(st)

InitIdle == StoriesIdle /\ ChatIdle /\ DirectoryIdle /\ ActionsIdle /\ GroupsIdle

SpecStories == InitIdle /\ [][NextStories]_vars

\* the story bar as loadStories left it at reading 2, for stories made at the
\* readings 1 and 2, and the viewer over it while the clock moves on
LoadedReadings == {1, 2}

InitLoaded ==
  /\ \E S \in (SUBSET LoadedReadings) \ {{}} : \E owner \in [S -> Users] :
       dbStories = {StoryRecord(t, owner[t]) : t \in S}
  /\ now = 2
  /\ dbStoryViews = [i \in 1..MaxStories |-> 0]
  /\ myStories = SelectStories(WithViews(ListActive(now)), TRUE)
  /\ stories = SelectStories(WithViews(ListActive(now)), FALSE)
  /\ selectedStory = NoStory /\ currentStoryIndex = 0 /\ showStoryViewer = FALSE
  /\ storyProgress = 0 /\ storyTimer = NoTimer /\ timers = {} /\ viewCalls = {}
  /\ closedByUser = FALSE /\ ticksSinceOpen = 0 /\ navigated = FALSE /\ openIndex = 0
  /\ messages = << >> /\ newMessage = << >> /\ replyToMessage = NoReply
  /\ selectedChatId = Chat1 /\ sends = << >>
  /\ dbMessages = {} /\ dbChats = PriorChats /\ lastSend = NoSend
  /\ DirectoryIdle /\ ActionsIdle
  /\ lastView = NoView /\ storyCalls = {} /\ lastLoad = NoLoad
  /\ RecordingIdle
  /\ session = "signedOut" /\ presenceWrites = {} /\ dbUser = KnownUser
  /\ groupName = << >> /\ selectedUsers = << >> /\ showNewGroupDialog = FALSE
  /\ groupCall = NoGroupCall /\ dbGroups = {} /\ dbGroupMembers = {}
  /\ lastGroup = NoGroup

NextExpiry ==
  \/ PlaybackFrame /\ lastView' = NoView /\ \E i \in 0..(MaxStories - 1) : OpenStory(i)
  \/ PlaybackFrame /\ \E c \in viewCalls, ok \in BOOLEAN :
                         ViewListDone(c, ok) /\ lastView' = ViewSettled(c, ok)
  \/ PlaybackFrame /\ \E c \in viewCalls, ok \in BOOLEAN :
                         ViewCreateDone(c, ok) /\ lastView' = ViewSettled(c, ok)
  \/ PlaybackFrame /\ lastView' = NoView /\ closeStoryViewer
  \/ PlaybackFrame /\ lastView' = NoView /\ nextStory
  \/ PlaybackFrame /\ lastView' = NoView /\ prevStory
  \/ LibraryFrame /\ \E r \in ClockReadings : TimePasses(r)

SpecExpiry == InitLoaded /\ [][NextExpiry]_vars

RecordingFrame == UNCHANGED <<storyVars, chatVars, dirVars, actVars, grpVars, lastView,
                              libVars, presVars>>

\* what the store write of a voice note leaves alone
VoiceFrame == UNCHANGED <<storyVars, messages, newMessage, replyToMessage, selectedChatId,
                          now, sends, dbChats, lastSend, dirVars, lastAction, ops, grpVars,
                          lastView, libVars, presVars>>

NextRecording ==
  \/ RecordingFrame /\ startRecording
  \/ RecordingFrame /\ \E c \in micCalls, ok \in BOOLEAN : GetUserMediaDone(c, ok)
  \/ RecordingFrame /\ stopRecording
  \/ RecordingFrame /\ \E i \in recIntervals : RecordingTick(i)
  \/ RecordingFrame /\ \E r \in recorders : RecorderStopped(r)
  \/ VoiceFrame /\ \E c \in voiceCalls, ok \in BOOLEAN : VoiceUploadDone(c, ok)
  \/ VoiceFrame /\ \E c \in voiceCalls, ok \in BOOLEAN : VoiceCreateDone(c, ok)
  \/ UNCHANGED <<libVars, presVars, recVars, lastView, storyVars, dirVars, grpVars, ops>>
       /\ \E c \in msgCalls, ok \in BOOLEAN : LoadListDone(c, ok)
  \/ UNCHANGED <<libVars, presVars, recVars, lastView, storyVars, dirVars, grpVars, ops>>
       /\ \E c \in msgCalls, ok \in BOOLEAN : LoadEnrichDone(c, ok)
  \/ UNCHANGED <<libVars, presVars, recVars, lastView, storyVars, dirVars, actVars, grpVars>>
       /\ ClockTick

SpecRecording == InitChatOpen /\ [][NextRecording]_vars

PresenceFrame == UNCHANGED <<storyVars, chatLocal, dbChats, dirVars, actVars, grpVars,
                             lastView, libVars, recVars>>

NextPresence ==
  \/ PresenceFrame /\ MarkOnline
  \/ PresenceFrame /\ Heartbeat
  \/ PresenceFrame /\ MarkOffline
  \/ PresenceFrame /\ \E w \in presenceWrites, ok \in BOOLEAN : PresenceWriteDone(w, ok)
  \/ UNCHANGED <<storyVars, dirVars, actVars, grpVars, lastView, libVars, presVars, recVars>>
       /\ ClockTick

SpecPresence == InitIdle /\ [][NextPresence]_vars

\* ------------------------------------------------------------ story playback
\* C1: in every reachable state of story playback at most one advance timer is
\* live, also when next/previous/close run while handleViewStory is suspended at
\* its story-view check.
C1_AtMostOneTimer == Cardinality(timers) <= 1

\* C2: after an explicit close, and until the next explicit open, no timer is
\* live and the viewer state is cleared: hidden, no selected story, progress 0.
C2_ClosedStaysClosed ==
  closedByUser =>
    /\ timers = {}
    /\ ~showStoryViewer
    /\ selectedStory = NoStory
    /\ storyProgress = 0

\* C3: playback opened at index 0 and left alone: after exactly 50 ticks the
\* viewer plays index 1 at progress 0 when a second story exists, and is closed
\* when there is only one story.
C3_FiftyTicksAdvance ==
  (openIndex = 0 /\ ticksSinceOpen = DefaultTicks /\ ~navigated /\ ~closedByUser) =>
    IF Len(allStories) >= 2
      THEN showStoryViewer /\ currentStoryIndex = 1 /\ storyProgress = 0
      ELSE ~showStoryViewer

\* --------------------------------------------------------- message pipeline
SendFailed == lastSend.outcome \in {"createFailed", "updateFailed"}

\* C4: after a send whose durable create and conversation update both succeed,
\* the local sequence is the sequence found at the call with the new message
\* appended once at the end; sends issued one after another therefore stand in
\* submission order.
C4_SendAppendsAtEnd ==
  (lastSend.outcome = "ok" /\ ~lastSend.interfered) =>
    lastSend.after = Append(lastSend.before, lastSend.msg)

\* a second send in a row has succeeded: the sequence found at its call ends with
\* the message of the first
C4_Witness ==
  /\ lastSend.outcome = "ok" /\ ~lastSend.interfered
  /\ lastSend.before # << >>
  /\ lastSend.before[Len(lastSend.before)].senderId = currentUser
  /\ lastSend.before[Len(lastSend.before)].id < lastSend.msg.id

\* C5: when the durable create of a send fails, the local sequence after the
\* call is exactly the sequence found at the call.
C5_CreateFailureRestores ==
  (lastSend.outcome = "createFailed" /\ ~lastSend.interfered) =>
    lastSend.after = lastSend.before

\* C6: a failed send leaves the pending reply context as it was at the call (the
\* message sequence is the subject of C5).
C6_FailedSendKeepsReply ==
  (SendFailed /\ ~lastSend.interfered) => lastSend.replyAfter = lastSend.replyBefore

\* ------------------------------------------------- the conversation directory
KindOf(chat) == {r.type : r \in {q \in dbChats : q.id = chat}}

IndividualChats == {r.id : r \in {q \in dbChats : q.type = "individual"}}

\* C7: when the calls for a pair of users are issued one after the other and
\* every store operation succeeds, each call after the first returns the
\* conversation id the first call returned and creates nothing.
C7_SequentialSameId ==
  (lastStart.outcome = "ok" /\ ~overlapped /\ ~storeFailed /\ lastStart.first # NoChat)
    => (lastStart.chat = lastStart.first /\ ~lastStart.created)

\* C8: the conversation a call returns, found or created, is of kind
\* individual; a group of the two users is never returned.
C8_ReturnsIndividual ==
  lastStart.outcome = "ok" => KindOf(lastStart.chat) = {"individual"}

\* C9: in every state of the store, overlapping calls included, at most one
\* individual conversation has the two users as its participants.
C9_AtMostOneIndividual ==
  Cardinality({c \in IndividualChats : Participants(c) = Clients}) <= 1

\* C10: whenever no call is in progress, every conversation of kind individual
\* in the store has exactly two participants, also after a call in which a
\* later store write failed.
C10_TwoParticipants ==
  Busy = {} => \A c \in IndividualChats : Cardinality(Participants(c)) = 2

\* --------------------------------------------------------- message actions
\* C11: a delete by the current user never removes from the store a message
\* that another user sent.
C11_DeleteOnlyOwn ==
  lastAction.kind = "deleteWrite" => lastAction.removed \subseteq {lastAction.by}

\* C12: once a delete that removed the message from the store has finished, its
\* reload settled either way, the message is in neither the store nor the local
\* sequence.
C12_DeletedIsGone ==
  (lastAction.kind = "deleteDone" /\ lastAction.removed) =>
    /\ ~IdTaken(lastAction.id)
    /\ \A i \in 1..Len(messages) : messages[i].id # lastAction.id

\* C16: a stored message's reply-to reference points to a message of the same
\* conversation.
C16_ReplySameConversation ==
  \A m \in dbMessages :
    m.replyToMessageId # NoMessage =>
      \A r \in RowsOf(m.replyToMessageId) : r.chatId = m.chatId

\* C17: a star action leaves the stored flag at the negation of the value that
\* was stored when the action was issued.
C17_StarToggles ==
  (lastAction.kind = "star" /\ lastAction.before # {}) =>
    lastAction.after = {~b : b \in lastAction.before}

\* ------------------------------------------------------- validation, groups
\* C19: a sendMessage call with an empty or blank draft, and a
\* handleCreateGroup call with an empty or blank name or no member selected,
\* start no store call and leave the local state and the store as they were.
C19_InvalidNoEffect ==
  /\ (lastSend.outcome = "called" /\ Trim(lastSend.draft) = << >>) =>
       /\ messages = lastSend.before
       /\ newMessage = lastSend.draft
       /\ replyToMessage = lastSend.replyBefore
       /\ Len(sends) = lastSend.inFlight
  /\ (lastGroup.outcome = "called"
        /\ (Trim(lastGroup.name) = << >> \/ Len(lastGroup.members) = 0)) =>
       /\ groupName = lastGroup.name
       /\ selectedUsers = lastGroup.members
       /\ showNewGroupDialog = lastGroup.shown
       /\ groupCall = lastGroup.call
       /\ <<dbGroups, dbChats, dbGroupMembers, dbChatParticipants, dbMessages>>
            = lastGroup.store

C19_Witness ==
  /\ lastSend.outcome = "called" /\ lastSend.draft = <<" ">>
  /\ lastGroup.outcome = "called" /\ Trim(lastGroup.name) = << >>

GroupMessages(chat) == {r \in dbMessages : r.chatId = chat}

\* C20: when handleCreateGroup has completed with every store call succeeding,
\* the participants of the new conversation are the creator and the selected
\* members, the creator alone has the role admin and every other member the
\* role member, and the conversation holds one message, sent by the creator.
C20_GroupCreated ==
  lastGroup.outcome = "ok" =>
    /\ Participants(lastGroup.chatId) = {lastGroup.creator} \cup lastGroup.members
    /\ Cardinality(Participants(lastGroup.chatId)) >= 2
    /\ {r.userId : r \in {q \in dbGroupMembers :
                            q.groupId = lastGroup.groupId /\ q.role = "admin"}}
         = {lastGroup.creator}
    /\ {r.userId : r \in {q \in dbGroupMembers :
                            q.groupId = lastGroup.groupId /\ q.role = "member"}}
         = lastGroup.members
    /\ Cardinality(GroupMessages(lastGroup.chatId)) = 1
    /\ \A r \in GroupMessages(lastGroup.chatId) : r.senderId = lastGroup.creator

C20_Witness ==
  /\ lastGroup.outcome = "ok"
  /\ Cardinality(lastGroup.members) = 2
  /\ dbChatParticipants # {r \in dbChatParticipants : r.chatId = lastGroup.chatId}

\* ------------------------------------------------------------- story views
\* C14: a view call that ran without another call for the same story beside it,
\* its store calls succeeding, and that found at most one record when it began
\* (the second of two calls made one after the other finds the record of the
\* first) leaves exactly one record for the story and the viewer.
C14_SequentialViewsOneRecord ==
  (lastView.outcome = "done" /\ lastView.clean /\ lastView.ok /\ lastView.startCount <= 1)
    => dbStoryViews[lastView.story] = 1

C14_Witness ==
  /\ lastView.outcome = "done" /\ lastView.clean /\ lastView.ok
  /\ lastView.startCount = 1
  /\ dbStoryViews[lastView.story] = 1

\* C15: the store never holds more than one view record per story for the
\* viewer, overlapping handleViewStory calls included.
C15_AtMostOneView == \A st \in 1..MaxStories : dbStoryViews[st] <= 1

\* ------------------------------------------------------------ story expiry
\* C13: a loadStories call that read the clock at t returns every stored story
\* created at T with T <= t < T + 24h and no stored story with t >= T + 24h,
\* whatever view records the story has.
C13_ActiveWindow ==
  lastLoad.outcome = "ok" =>
    \A st \in lastLoad.store :
      /\ (st.createdAt <= lastLoad.t /\ lastLoad.t < st.createdAt + StoryTTL)
           => st.id \in lastLoad.result
      /\ lastLoad.t >= st.createdAt + StoryTTL => st.id \notin lastLoad.result

C13_Witness ==
  /\ lastLoad.outcome = "ok"
  /\ \E st \in lastLoad.store :
       /\ lastLoad.t = st.createdAt + StoryTTL
       /\ ViewCount(st.id) > 0
  /\ \E st \in lastLoad.store : st.id \in lastLoad.result /\ lastLoad.t > st.createdAt

\* ----------------------------------------------------------------- presence
\* C18: the last-seen value of the user in the store never decreases.
C18_LastSeenMonotone == [][dbUser'.lastSeen >= dbUser.lastSeen]_vars


\* ------------------------------------------------ replies, reloads, rollback
\* the sendMessage call of the last step went past its guard
SendAccepted == lastSend.outcome = "called" /\ SendGuard(lastSend.draft, selectedChatId)

\* C21: the reply context set by the reply action is consumed by the next send:
\* the message that send appends, and the row its create stores, carry the id
\* that was pending at the call, and the send leaves no reply pending, so that
\* the send after it carries none unless reply is applied again.
C21_ReplyConsumedByNextSend ==
  /\ SendAccepted =>
       /\ messages[Len(messages)].replyToMessageId = IdOf(lastSend.replyBefore)
       /\ sends[Len(sends)].msg.replyToMessageId = IdOf(lastSend.replyBefore)
       /\ replyToMessage = NoReply
  /\ \A i \in 1..Len(sends) :
       (sends[i].pc = "update" /\ ~sends[i].interfered) =>
         \E r \in dbMessages :
           r.id = sends[i].msg.id /\ r.replyToMessageId = IdOf(sends[i].replyBefore)

\* a send without a reply pending was called after a send of the current user
\* that carried one
C21_Witness ==
  /\ SendAccepted
  /\ lastSend.replyBefore = NoReply
  /\ \E i \in 1..Len(lastSend.before) :
       /\ lastSend.before[i].senderId = currentUser
       /\ lastSend.before[i].replyToMessageId # NoMessage
       /\ \E r \in dbMessages : r.id = lastSend.before[i].id /\ r.replyToMessageId # NoMessage

SendFinished == lastSend.outcome \in {"ok", "createFailed", "updateFailed"}

\* C25: once a send has finished, its message is in the local sequence exactly
\* when it is in the store; a message whose create succeeded stays in the local
\* sequence when the conversation update after it fails.
C25_LocalMatchesStore ==
  (SendFinished /\ ~lastSend.interfered) =>
    ((\E i \in 1..Len(lastSend.after) : lastSend.after[i] = lastSend.msg)
       <=> Row(lastSend.msg) \in dbMessages)

\* C28: the rollback of a failed send removes nothing but that send's own
\* message: every message found in the local sequence at the call is still in
\* it afterwards, also when another send took the same clock reading.
C28_RollbackOnlyOwn ==
  (SendFailed /\ ~lastSend.interfered) =>
    \A i \in 1..Len(lastSend.before) :
      \E j \in 1..Len(lastSend.after) : lastSend.after[j] = lastSend.before[i]

\* C26: a message appended by a send that succeeds, and that the user did not
\* delete, is in the local sequence of its conversation when the send has
\* finished, also when a reload read the store before the create committed and
\* was applied after the append.
C26_OptimisticStays ==
  (lastSend.outcome = "ok" /\ ~lastSend.deleted /\ selectedChatId = lastSend.msg.chatId) =>
    \E i \in 1..Len(messages) : messages[i].id = lastSend.msg.id

LoadsInFlight == {c \in msgCalls : c.kind = "load"}

\* C27: whenever no load is in flight, every message of the local sequence
\* belongs to the selected conversation.
C27_LocalOfSelected ==
  LoadsInFlight = {} => \A i \in 1..Len(messages) : messages[i].chatId = selectedChatId

\* ------------------------------------------------------- manual navigation
\* C23: while a story is shown, next below the last index cancels the stored
\* timer and shows the following story at progress 0, next at the last index
\* closes the viewer, previous above index 0 cancels the stored timer and shows
\* the preceding story at progress 0, previous at index 0 changes neither index,
\* story, progress nor timer; the index of a shown story is within the list.
C23_ManualNavigation ==
  [][ /\ nextStory =>
           IF currentStoryIndex < Len(allStories) - 1
             THEN /\ showStoryViewer'
                  /\ currentStoryIndex' = currentStoryIndex + 1
                  /\ selectedStory' = StoryAt(currentStoryIndex + 1).id
                  /\ storyProgress' = 0
                  /\ storyTimer # NoTimer => \A t \in timers' : t.id # storyTimer
             ELSE /\ ~showStoryViewer'
                  /\ selectedStory' = NoStory
                  /\ storyTimer # NoTimer => \A t \in timers' : t.id # storyTimer
      /\ prevStory =>
           IF currentStoryIndex > 0
             THEN /\ showStoryViewer'
                  /\ currentStoryIndex' = currentStoryIndex - 1
                  /\ selectedStory' = StoryAt(currentStoryIndex - 1).id
                  /\ storyProgress' = 0
                  /\ storyTimer # NoTimer => \A t \in timers' : t.id # storyTimer
             ELSE UNCHANGED <<currentStoryIndex, selectedStory, storyProgress, storyTimer,
                              timers, showStoryViewer>>
      /\ showStoryViewer' => currentStoryIndex' \in 0..(Len(allStories') - 1)
    ]_vars

\* next was pressed on the story opened at index 0 while its timer was running:
\* the second story is shown from the start and the stored timer is a new one
C23_Witness ==
  /\ navigated /\ openIndex = 0
  /\ showStoryViewer /\ currentStoryIndex = 1 /\ storyProgress = 0
  /\ ticksSinceOpen = 0
  /\ Cardinality(timers) = 1 /\ \A t \in timers : t.id = storyTimer /\ t.index = 1

\* the quoted preview of local message m is that of the stored message it
\* refers to, and there is none when no such message is stored
PreviewRight(m) ==
  m.replyToMessageId # NoMessage =>
    /\ RowsOf(m.replyToMessageId) = {} => m.replyToMessage = NoReply
    /\ \A q \in RowsOf(m.replyToMessageId) : m.replyToMessage = ReplyTo(q)

\* C22: a message whose reply-to reference points to no stored message is still
\* created and listed with the reference set, and what the user sees of it,
\* from a listing or from the send that appended it, has no quoted preview; when
\* the referenced message is stored the preview has its content and sender.
C22_DanglingReplyTolerated ==
  [][ /\ \A c \in msgCalls :
           LoadEnrichDone(c, TRUE) =>
             /\ Len(messages') = Len(c.rows)
             /\ \A i \in 1..Len(c.rows) :
                  Row(messages'[i]) = c.rows[i] /\ PreviewRight(messages'[i])
      /\ SendAccepted' => PreviewRight(messages'[Len(messages')])
    ]_vars

\* ------------------------------------------------------------ story expiry
StoredStory(id) == {st \in dbStories : st.id = id}

\* C29: when the viewer comes to show a story, and when a view record is created
\* for a story, the story is active: the clock is before its expiry, also for a
\* story that was loaded while active and is opened later.
C29_NoExpiredPlayback ==
  [][ /\ (showStoryViewer' /\ selectedStory' # NoStory /\ selectedStory' # selectedStory) =>
           \A st \in StoredStory(selectedStory') : Active(st, now')
      /\ \A id \in DOMAIN dbStoryViews :
           dbStoryViews'[id] > dbStoryViews[id] =>
             \A st \in StoredStory(id) : Active(st, now')
    ]_vars

\* -------------------------------------------------------------- voice notes
\* C24: a voice-note message is of kind audio, its body gives the number of
\* ticks of the one-second timer between the start and the stop of its
\* recording, and its attachment is made of the data of that recording.
C24_VoiceNoteOfRecording ==
  [][ \A c \in voiceCalls :
        VoiceCreateDone(c, TRUE) =>
          \E m \in dbMessages' \ dbMessages :
            /\ m.messageType = "audio"
            /\ m.content = VoiceContent(c.ticks)
            /\ m.file = <<c.id>>
    ]_vars

\* C30: at most one recording timer is live, and once stopRecording has been
\* invoked after startRecording and the microphone request has been answered,
\* no recorder is recording, isRecording is false and no recording timer is
\* live, also when stopRecording ran before the request was answered.
C30_StopEndsRecording ==
  /\ Cardinality(recIntervals) <= 1
  /\ (~held /\ micCalls = {}) =>
       /\ \A r \in recorders : r.state # "recording"
       /\ ~isRecording
       /\ recIntervals = {}
====
